---- MODULE Spec2Model ----
(***************************************************************************)
(* The dev-cockpit gateway methods (projects.list, projects.usage,         *)
(* projects.scan, projects.toggle, projects.git) of                        *)
(* src/gateway/server-methods/projects.ts, as a state machine over the     *)
(* registry file ~/.openclaw/cockpit/projects.json.                        *)
(*                                                                         *)
(* Strings that the code inspects are sequences of one-character strings   *)
(* (project names) or of path segments (absolute paths), so that a test on *)
(* their content is computed, not assumed.                                 *)
(***************************************************************************)
EXTENDS Integers, Sequences, FiniteSets, TLC

VARIABLES
  registryFile,  \* the file at REGISTRY_PATH
  inflight,      \* how many handlers await their python3 subprocess, per continuation
  last,          \* what the most recent handler step did and answered
  acked,         \* the { project, enabled } answers of the run of successful toggles so far
  usage,         \* the session logs on disk and what the last project_usage.py run computed
  git,           \* the commits git log returns and what git_activity.py made of them
  hook,          \* one invocation of a hook handler (brain-context or brain-ingest)
  triage,        \* one run of scripts/triage.sh over a mailbox
  ui             \* the ProjectsState of the control UI and its calls in flight

gatewayVars == <<registryFile, inflight, last, acked>>

usageVars == <<usage>>

gitVars == <<git>>

hookVars == <<hook>>

\* What no gateway handler touches.
triageVars == <<triage>>

uiVars == <<ui>>

offGatewayVars == <<usage, git, hook, triage, ui>>

vars == <<registryFile, inflight, last, acked, usage, git, hook, triage, ui>>

\* ------------------------------------------------------------------ bounds

\* Requests that may await a subprocess at the same time.
MaxInflight == 1

\* How many times the clock of the brain-context cache is advanced.
MaxTicks == 3

\* How many batches of requests loadProjects issues on one state object.
MaxBatches == 2

\* How many scanProjects calls issue a projects.scan request on one state object.
MaxScans == 2

\* How many toggleProject calls issue a projects.toggle request on one state object.
MaxToggles == 1

\* ------------------------------------------------------- paths and names

HOME == <<"home", "u">>

COCKPIT_DIR == HOME \o <<".openclaw", "cockpit">>

REGISTRY_PATH == COCKPIT_DIR \o <<"projects.json">>

DefaultRoot == HOME \o <<"dev">>

NameUi == <<"u", "i">>
NameApi == <<"a", "p", "i">>
NameGhost == <<"x">>
NameConstructor == <<"c", "o", "n", "s", "t", "r", "u", "c", "t", "o", "r">>
NameTraversal == <<".", ".", "/", "u", "i">>
NameBackslash == <<"u", "\\", "i">>

\* The repositories the scanner can find under the scan roots.
ReposOnDisk == {NameUi, NameApi}

\* Property names every object literal inherits from Object.prototype; the
\* value found under each is a function object (truthy, extensible).
ObjectPrototypeKeys == {NameConstructor}

\* ------------------------------------------------------------ JS values

Undefined == [t |-> "undefined", s |-> <<>>, n |-> 0, nan |-> FALSE, b |-> FALSE, a |-> <<>>]
JsString(s) == [Undefined EXCEPT !.t = "string", !.s = s]
JsNumber(n) == [Undefined EXCEPT !.t = "number", !.n = n]
JsNaN == [Undefined EXCEPT !.t = "number", !.nan = TRUE]
JsBoolean(b) == [Undefined EXCEPT !.t = "boolean", !.b = b]
JsArray(a) == [Undefined EXCEPT !.t = "array", !.a = a]

\* typeof x
Typeof(x) == IF x.t = "array" THEN "object" ELSE x.t

\* String(x) for a number, as the argv element it becomes
StringOfNumber(x) == IF x.nan THEN "NaN" ELSE ToString(x.n)

NoParams == [project |-> Undefined, enabled |-> Undefined, days |-> Undefined, roots |-> Undefined]

\* ------------------------------------------------------------- registry

ProjectEntry(name, enabled) ==
  [path |-> DefaultRoot \o <<name>>, enabled |-> enabled, tags |-> {"git"},
   language |-> "typescript", discovered |-> "2026-02-20", description |-> ""]

NoProjects == [n \in {} |-> ProjectEntry(<<>>, FALSE)]

EmptyRegistry == [version |-> 0, scannedAt |-> 0, scanRoots |-> <<>>, projects |-> NoProjects]

\* The registries a scan may have left behind before the first request.
InitialRegistries ==
  { [version |-> 1, scannedAt |-> 0, scanRoots |-> <<DefaultRoot>>,
     projects |-> [n \in names |-> ProjectEntry(n, en[n])]] :
      names \in {{NameUi}, ReposOnDisk}, en \in [ReposOnDisk -> BOOLEAN] }

\* ----------------------------------------------------------------- file

MissingFile == [exists |-> FALSE, json |-> FALSE, fmt |-> "none", value |-> EmptyRegistry]

\* Present, but the text is not JSON (hand-edited, or cut short by a failed write).
CorruptFile == [exists |-> TRUE, json |-> FALSE, fmt |-> "none", value |-> EmptyRegistry]

FileOf(fmt, value) == [exists |-> TRUE, json |-> TRUE, fmt |-> fmt, value |-> value]

ExistsSync(f) == f.exists

\* One fs or JSON call a handler made on the registry, and whether it threw.
FsCall(call, threw) == [call |-> call, threw |-> threw]

\* fs.readFileSync(REGISTRY_PATH, "utf-8"): the text, or a throw on an I/O error
ReadFileSync(f, rd) ==
  IF rd = "ok" THEN [threw |-> FALSE, raw |-> f] ELSE [threw |-> TRUE, raw |-> CorruptFile]

\* JSON.parse(raw)
JsonParse(raw) ==
  IF raw.json THEN [threw |-> FALSE, value |-> raw.value]
  ELSE [threw |-> TRUE, value |-> EmptyRegistry]

\* JSON.stringify(registry, null, 2) + "\n"
JsonStringify(value) == FileOf("indent2", value)

\* fs.writeFileSync(REGISTRY_PATH, text): opens with truncation, then writes.
\* "denied": the open fails, nothing changes; "torn": the file is truncated
\* and the write fails before the text is complete.
WriteFileSync(f, text, wr) ==
  IF wr = "ok" THEN [threw |-> FALSE, file |-> text]
  ELSE IF wr = "denied" THEN [threw |-> TRUE, file |-> f]
  ELSE [threw |-> TRUE, file |-> CorruptFile]

ReadOutcomes == {"ok", "error"}
WriteOutcomes == {"ok", "denied", "torn"}

\* ------------------------------------------------------------ responses

INVALID_REQUEST == "INVALID_REQUEST"
UNAVAILABLE == "UNAVAILABLE"

NoPayload == [tag |-> "undefined", registry |-> EmptyRegistry, project |-> <<>>, enabled |-> FALSE]

\* respond(true, payload)
RespondOk(payload) == [ok |-> TRUE, code |-> "none", message |-> "none", payload |-> payload]

\* respond(false, undefined, errorShape(code, message))
RespondError(code, message) == [ok |-> FALSE, code |-> code, message |-> message, payload |-> NoPayload]

\* What a handler did: the respond calls it made, the file it leaves, the
\* calls it made on the registry, and whether an exception left the handler.
Effect(responses, file, fs, escaped) ==
  [responses |-> responses, file |-> file, fs |-> fs, escaped |-> escaped]

\* The observation of one handler step. pending: the handler is at its await.
Observed(method, params, eff, before, spawns, child, pending) ==
  [method |-> method, params |-> params, responses |-> eff.responses, fs |-> eff.fs,
   changed |-> (eff.file # before), spawns |-> spawns, child |-> child, pending |-> pending,
   escaped |-> eff.escaped]

Idle ==
  [method |-> "none", params |-> NoParams, responses |-> <<>>, fs |-> <<>>,
   changed |-> FALSE, spawns |-> <<>>, child |-> "none", pending |-> FALSE, escaped |-> FALSE]

Called(fs, call) == \E i \in DOMAIN fs : fs[i].call = call

\* ---------------------------------------------------------- projects.list

\* The catch answers an unreadable registry like a missing one.
ListCatchEmpty(f, fs) ==
  Effect(<<RespondOk([NoPayload EXCEPT !.tag = "noRegistry"])>>, f, fs, FALSE)

\* catch (err) { respond(false, undefined, errorShape(UNAVAILABLE, String(err))) }
ListCatch(f, fs) == Effect(<<RespondError(UNAVAILABLE, "String(err)")>>, f, fs, FALSE)

ProjectsList(f, rd) ==
  IF ~ExistsSync(f)
  THEN Effect(<<RespondOk([NoPayload EXCEPT !.tag = "noRegistry"])>>, f,
              <<FsCall("existsSync", FALSE)>>, FALSE)
  ELSE LET r == ReadFileSync(f, rd) IN
    IF r.threw
    THEN ListCatch(f, <<FsCall("existsSync", FALSE), FsCall("readFileSync", TRUE)>>)
    ELSE LET registry == JsonParse(r.raw)
             fs == <<FsCall("existsSync", FALSE), FsCall("readFileSync", FALSE),
                     FsCall("JSON.parse", registry.threw)>>
         IN
      IF registry.threw
      THEN ListCatch(f, fs)
      ELSE Effect(<<RespondOk([NoPayload EXCEPT !.tag = "registry", !.registry = registry.value])>>,
                  f, fs, FALSE)

List(rd) ==
  LET eff == ProjectsList(registryFile, rd) IN
  \* an outcome is drawn for the read only when the read is made
  /\ rd = "ok" \/ Called(eff.fs, "readFileSync")
  /\ last' = Observed("projects.list", NoParams, eff, registryFile, <<>>, "none", FALSE)
  /\ registryFile' = eff.file
  /\ UNCHANGED inflight

\* -------------------------------------------------------- projects.toggle

\* registry.projects?.[projectName]: an own entry, a property inherited from
\* Object.prototype, or undefined
Lookup(projects, name) ==
  IF name \in DOMAIN projects THEN "own"
  ELSE IF name \in ObjectPrototypeKeys THEN "inherited"
  ELSE "undefined"

\* The assignment is made on a copy: the registry that is written keeps the old flag.
SetEnabledOnCopy(registry, name, enabled) == registry

\* The assignment sets the flag of every project, not of the named one alone.
SetEnabledAll(registry, name, enabled) ==
  IF name \in DOMAIN registry.projects
  THEN [registry EXCEPT !.projects = [n \in DOMAIN registry.projects |->
                                        [registry.projects[n] EXCEPT !.enabled = enabled]]]
  ELSE registry

\* registry.projects[projectName].enabled = enabled: on an own entry the
\* registry changes; on an inherited property the assignment lands on the
\* shared prototype object and the registry keeps its content.
SetEnabled(registry, name, enabled) ==
  IF name \in DOMAIN registry.projects
  THEN [registry EXCEPT !.projects[name].enabled = enabled]
  ELSE registry

\* The catch block lets the error go.
ToggleCatchRethrow(f, fs) == Effect(<<>>, f, fs, TRUE)

\* catch (err) { respond(false, undefined, errorShape(UNAVAILABLE, String(err))) }
ToggleCatch(f, fs) == Effect(<<RespondError(UNAVAILABLE, "String(err)")>>, f, fs, FALSE)

\* Only the project name is looked at.
ToggleParamsMissingProjectOnly(projectName, enabled) ==
  projectName.t = "undefined" \/ projectName.s = <<>>

\* !projectName || enabled === null
ToggleParamsMissing(projectName, enabled) ==
  (projectName.t = "undefined" \/ projectName.s = <<>>) \/ enabled.t = "undefined"

ProjectsToggle(params, f, rd, wr) ==
  LET projectName == IF Typeof(params.project) = "string" THEN params.project ELSE Undefined
      enabled == IF Typeof(params.enabled) = "boolean" THEN params.enabled ELSE Undefined
  IN
  IF ToggleParamsMissing(projectName, enabled)
  THEN Effect(<<RespondError(INVALID_REQUEST, "project (string) and enabled (boolean) required")>>,
              f, <<>>, FALSE)
  ELSE IF ~ExistsSync(f)
  THEN Effect(<<RespondError(INVALID_REQUEST, "No registry found")>>, f,
              <<FsCall("existsSync", FALSE)>>, FALSE)
  ELSE LET r == ReadFileSync(f, rd) IN
    IF r.threw
    THEN ToggleCatch(f, <<FsCall("existsSync", FALSE), FsCall("readFileSync", TRUE)>>)
    ELSE LET registry == JsonParse(r.raw)
             fs == <<FsCall("existsSync", FALSE), FsCall("readFileSync", FALSE),
                     FsCall("JSON.parse", registry.threw)>>
         IN
      IF registry.threw
      THEN ToggleCatch(f, fs)
      ELSE IF Lookup(registry.value.projects, projectName.s) = "undefined"
      THEN Effect(<<RespondError(INVALID_REQUEST, "Project not found")>>, f, fs, FALSE)
      ELSE LET w == WriteFileSync(f, JsonStringify(SetEnabled(registry.value, projectName.s, enabled.b)), wr)
               fsw == Append(fs, FsCall("writeFileSync", w.threw))
           IN
        IF w.threw
        THEN ToggleCatch(w.file, fsw)
        ELSE Effect(<<RespondOk([NoPayload EXCEPT !.tag = "toggle", !.project = projectName.s,
                                                  !.enabled = enabled.b])>>, w.file, fsw, FALSE)

ToggleProjects == {Undefined, JsNumber(7), JsString(<<>>), JsString(NameUi), JsString(NameApi),
                   JsString(NameGhost), JsString(NameConstructor), JsString(NameTraversal)}

ToggleEnabled == {Undefined, JsString(<<"1">>)}

\* The { project, enabled } params tried: every project with a boolean, and
\* a registered project with enabled missing or not a boolean.
ToggleInputs ==
  {[NoParams EXCEPT !.project = p, !.enabled = JsBoolean(b)] : p \in ToggleProjects, b \in BOOLEAN}
  \cup {[NoParams EXCEPT !.project = JsString(NameUi), !.enabled = e] : e \in ToggleEnabled}

Toggle(params, rd, wr) ==
  LET eff == ProjectsToggle(params, registryFile, rd, wr) IN
  \* an outcome is drawn for a read or a write only when the call is made
  /\ rd = "ok" \/ Called(eff.fs, "readFileSync")
  /\ wr = "ok" \/ Called(eff.fs, "writeFileSync")
  /\ last' = Observed("projects.toggle", params, eff, registryFile, <<>>, "none", FALSE)
  /\ registryFile' = eff.file
  /\ UNCHANGED inflight

\* respond(true, { project, enabled }) of toggles that ran back to back (no
\* other handler and no failed toggle between them): what each client was
\* told, the latest answer per project of the registry.
NoAcks == {}

Acknowledged(acks, before, obs) ==
  IF ~(Len(obs.responses) = 1 /\ obs.responses[1].ok) THEN NoAcks
  ELSE IF before.json /\ obs.params.project.s \in DOMAIN before.value.projects
  THEN {a \in acks : a.project # obs.params.project.s}
       \cup {[project |-> obs.params.project.s, enabled |-> obs.params.enabled.b]}
  ELSE acks

\* ------------------------------------------------------- runPythonScript

\* One argv option of the python3 call, as pushed on args: the flag and its value.
Arg(opt, val) == [opt |-> opt, val |-> val]

Spawn(script, args) == [script |-> script, args |-> args]

\* What the python3 child may do: print JSON and exit 0, print something else
\* and exit 0, exit non-zero, print more than maxBuffer, or never exit.
ChildBehaviours == {"json", "notjson", "exit", "flood", "hang"}

\* The call without the timeout option: a child that never exits is awaited forever.
ExecFileAsyncNoTimeout(child) ==
  IF child = "hang" THEN [settled |-> FALSE, threw |-> FALSE, stdoutJson |-> FALSE]
  ELSE IF child \in {"exit", "flood"} THEN [settled |-> TRUE, threw |-> TRUE, stdoutJson |-> FALSE]
  ELSE [settled |-> TRUE, threw |-> FALSE, stdoutJson |-> (child = "json")]

\* await execFileAsync("python3", [scriptPath, ...args], {timeout: 30_000,
\* maxBuffer: 10 MB}): the child is killed at the timeout and when its output
\* overruns maxBuffer, and the promise rejects then and on a non-zero exit.
ExecFileAsync(child) ==
  IF child \in {"hang", "flood", "exit"}
  THEN [settled |-> TRUE, threw |-> TRUE, stdoutJson |-> FALSE]
  ELSE [settled |-> TRUE, threw |-> FALSE, stdoutJson |-> (child = "json")]

\* runPythonScript from the execFile call on: the promise rejects when the
\* child fails or when JSON.parse(stdout) throws.
RunPythonScript(child) ==
  LET exec == ExecFileAsync(child) IN
  IF ~exec.settled THEN [settled |-> FALSE, threw |-> FALSE]
  ELSE IF exec.threw THEN [settled |-> TRUE, threw |-> TRUE]
  ELSE IF ~exec.stdoutJson THEN [settled |-> TRUE, threw |-> TRUE]
  ELSE [settled |-> TRUE, threw |-> FALSE]

\* What is live in a handler across its await: which handler it is and, for
\* a scan, whether the scanner has written the registry yet.
Continuation(method, stage) == [method |-> method, stage |-> stage]

Continuations ==
  {Continuation("projects.usage", "running"), Continuation("projects.git", "running"),
   Continuation("projects.scan", "running"), Continuation("projects.scan", "written")}

InflightCount ==
  inflight[Continuation("projects.usage", "running")] + inflight[Continuation("projects.git", "running")]
  + inflight[Continuation("projects.scan", "running")] + inflight[Continuation("projects.scan", "written")]

\* The handler up to its await. With the script file missing runPythonScript
\* throws before any child is started and the request ends in the catch.
Start(method, params, script, args, scriptExists) ==
  IF scriptExists
  THEN /\ InflightCount < MaxInflight
       /\ inflight' = [inflight EXCEPT ![Continuation(method, "running")] = @ + 1]
       /\ last' = Observed(method, params, Effect(<<>>, registryFile, <<>>, FALSE), registryFile,
                           <<Spawn(script, args)>>, "running", TRUE)
       /\ UNCHANGED registryFile
  ELSE /\ last' = Observed(method, params,
                           Effect(<<RespondError(UNAVAILABLE, "String(err)")>>, registryFile, <<>>, FALSE),
                           registryFile, <<>>, "noscript", FALSE)
       /\ UNCHANGED <<registryFile, inflight>>

\* --------------------------------------------- projects.usage, projects.git

DaysInputs == {Undefined, JsNumber(7), JsNumber(-1), JsNaN, JsString(<<"7">>)}

FilterInputs == {Undefined, JsString(NameUi), JsString(NameTraversal), JsString(NameBackslash)}

\* The { days, project } params tried: every days with no filter, every filter with 7 days.
UsageInputs ==
  {[NoParams EXCEPT !.days = d] : d \in DaysInputs}
  \cup {[NoParams EXCEPT !.days = JsNumber(7), !.project = p] : p \in FilterInputs}

\* args of projects.usage
ProjectsUsageArgs(params) ==
  <<Arg("--format", <<"json">>)>>
  \o (IF Typeof(params.days) = "number"
      THEN <<Arg("--days", <<StringOfNumber(params.days)>>)>> ELSE <<>>)
  \o (IF Typeof(params.project) = "string"
      THEN <<Arg("--project", params.project.s)>> ELSE <<>>)

\* The handler without its try/catch: a failed script leaves it unanswered.
ProjectsUsageRespondNoCatch(run) ==
  IF run.threw THEN <<>>
  ELSE <<RespondOk([NoPayload EXCEPT !.tag = "result"])>>

\* projects.usage after the await
ProjectsUsageRespond(run) ==
  IF run.threw THEN <<RespondError(UNAVAILABLE, "String(err)")>>
  ELSE <<RespondOk([NoPayload EXCEPT !.tag = "result"])>>

\* args of projects.git
ProjectsGitArgs(params) ==
  <<Arg("--format", <<"json">>)>>
  \o (IF Typeof(params.days) = "number"
      THEN <<Arg("--days", <<StringOfNumber(params.days)>>)>> ELSE <<>>)
  \o (IF Typeof(params.project) = "string"
      THEN <<Arg("--project", params.project.s)>> ELSE <<>>)

\* projects.git after the await
ProjectsGitRespond(run) ==
  IF run.threw THEN <<RespondError(UNAVAILABLE, "String(err)")>>
  ELSE <<RespondOk([NoPayload EXCEPT !.tag = "result"])>>

UsageStart(params, scriptExists) ==
  Start("projects.usage", params, "project_usage.py", ProjectsUsageArgs(params), scriptExists)

GitStart(params, scriptExists) ==
  Start("projects.git", params, "git_activity.py", ProjectsGitArgs(params), scriptExists)

UsageFinish(child) ==
  /\ inflight[Continuation("projects.usage", "running")] > 0
  /\ RunPythonScript(child).settled
  /\ inflight' = [inflight EXCEPT ![Continuation("projects.usage", "running")] = @ - 1]
  /\ last' = Observed("projects.usage", NoParams,
                      Effect(ProjectsUsageRespond(RunPythonScript(child)), registryFile, <<>>, FALSE),
                      registryFile, <<>>, child, FALSE)
  /\ UNCHANGED registryFile

GitFinish(child) ==
  /\ inflight[Continuation("projects.git", "running")] > 0
  /\ RunPythonScript(child).settled
  /\ inflight' = [inflight EXCEPT ![Continuation("projects.git", "running")] = @ - 1]
  /\ last' = Observed("projects.git", NoParams,
                      Effect(ProjectsGitRespond(RunPythonScript(child)), registryFile, <<>>, FALSE),
                      registryFile, <<>>, child, FALSE)
  /\ UNCHANGED registryFile

\* ---------------------------------------------------------- projects.scan

RootsInputs == {Undefined, JsString(<<"~">>), JsArray(<<>>), JsArray(<<DefaultRoot>>),
                JsArray(<<<<"etc">>>>), JsArray(<<HOME \o <<"..", "..", "etc">>>>),
                JsArray(<<DefaultRoot, <<"etc">>>>)}

\* args of projects.scan
ProjectsScanArgs(params) ==
  LET roots == IF params.roots.t = "array" THEN params.roots.a ELSE <<DefaultRoot>> IN
  <<Arg("--output", REGISTRY_PATH)>> \o [i \in 1..Len(roots) |-> Arg("--root", roots[i])]

\* catch (err) { respond(false, undefined, errorShape(UNAVAILABLE, String(err))) }
ScanCatch(f, fs) == Effect(<<RespondError(UNAVAILABLE, "String(err)")>>, f, fs, FALSE)

\* projects.scan after the await: the registry is re-read and returned
ProjectsScanRespond(run, f, rd) ==
  IF run.threw THEN ScanCatch(f, <<>>)
  ELSE IF ~ExistsSync(f)
  THEN Effect(<<RespondOk([NoPayload EXCEPT !.tag = "result"])>>, f,
              <<FsCall("existsSync", FALSE)>>, FALSE)
  ELSE LET r == ReadFileSync(f, rd) IN
    IF r.threw
    THEN ScanCatch(f, <<FsCall("existsSync", FALSE), FsCall("readFileSync", TRUE)>>)
    ELSE LET registry == JsonParse(r.raw)
             fs == <<FsCall("existsSync", FALSE), FsCall("readFileSync", FALSE),
                     FsCall("JSON.parse", registry.threw)>>
         IN
      IF registry.threw
      THEN ScanCatch(f, fs)
      ELSE Effect(<<RespondOk([NoPayload EXCEPT !.tag = "registry", !.registry = registry.value])>>,
                  f, fs, FALSE)

ScanStart(roots, scriptExists) ==
  LET params == [NoParams EXCEPT !.roots = roots] IN
  Start("projects.scan", params, "project_scan.py", ProjectsScanArgs(params), scriptExists)

ScanFinish(stage, child, rd) ==
  LET eff == ProjectsScanRespond(RunPythonScript(child), registryFile, rd) IN
  /\ inflight[Continuation("projects.scan", stage)] > 0
  /\ RunPythonScript(child).settled
  /\ rd = "ok" \/ Called(eff.fs, "readFileSync")
  /\ inflight' = [inflight EXCEPT ![Continuation("projects.scan", stage)] = @ - 1]
  /\ last' = Observed("projects.scan", NoParams, eff, registryFile, <<>>, child, FALSE)
  /\ registryFile' = eff.file

\* ------------------------------------------------- the scanner subprocess

\* project_scan.py --output REGISTRY_PATH --root ~/dev: repositories found
\* are added, entries already in the registry keep their fields (the enabled
\* flag among them), nothing is deleted.
Rescan(f) ==
  LET old == IF f.exists /\ f.json THEN f.value.projects ELSE NoProjects IN
  FileOf("scanner",
         [version |-> 1, scannedAt |-> 1, scanRoots |-> <<DefaultRoot>>,
          projects |-> [n \in DOMAIN old \cup ReposOnDisk |->
                          IF n \in DOMAIN old THEN old[n] ELSE ProjectEntry(n, TRUE)]])

ScannerWrite ==
  /\ inflight[Continuation("projects.scan", "running")] > 0
  /\ registryFile' = Rescan(registryFile)
  /\ inflight' = [inflight EXCEPT ![Continuation("projects.scan", "running")] = @ - 1,
                                  ![Continuation("projects.scan", "written")] = @ + 1]
  /\ UNCHANGED last

\* ------------------------------------- session attribution (project_usage.py)

\* Paths and cwds as the strings the matching rule compares, character by character.
PathA == <<"/", "a">>
PathAB == <<"/", "a", "/", "b">>
PathABC == <<"/", "a", "/", "b", "c">>
CwdABSlashC == <<"/", "a", "/", "b", "/", "c">>
CwdD == <<"/", "d">>

NameA == <<"a">>
NameB == <<"b">>
NameBc == <<"b", "c">>

\* The bucket of sessions no project claims.
Unmatched == <<"_", "u", "n", "m", "a", "t", "c", "h", "e", "d">>

TrackedPaths == (NameA :> PathA) @@ (NameB :> PathAB) @@ (NameBc :> PathABC)

\* Registries with nested and look-alike project paths, every path unique.
UsageRegistries ==
  { [version |-> 1, scannedAt |-> 0, scanRoots |-> <<PathA>>,
     projects |-> [n \in names |-> [ProjectEntry(n, en[n]) EXCEPT !.path = TrackedPaths[n]]]] :
      names \in {{NameA, NameB, NameBc}, {NameA, NameB}, {NameBc}},
      en \in [DOMAIN TrackedPaths -> BOOLEAN] }

\* The orders in which a set can be enumerated (the keys of a parsed JSON
\* object, the files of a glob).
Orders(S) ==
  { o \in [1..Cardinality(S) -> S] : \A i, j \in 1..Cardinality(S) : o[i] = o[j] => i = j }

\* Plain string prefix: cwd.startswith(path)
StartsWith(cwd, path) ==
  Len(cwd) >= Len(path) /\ SubSeq(cwd, 1, Len(path)) = path

\* cwd is the project's directory or lies below it: cwd equals path, or
\* starts with path followed by the separator.
IsUnder(cwd, path) ==
  \/ cwd = path
  \/ Len(cwd) > Len(path) /\ SubSeq(cwd, 1, Len(path)) = path /\ cwd[Len(path) + 1] = "/"

\* Every project takes part, whatever its flag.
ParticipatesAlways(entry) == TRUE

\* Only enabled projects take part in the matching.
Participates(entry) == entry.enabled

\* Any later match replaces the one found so far.
LongerAny(path, best) == TRUE

\* A match replaces the best so far only when its path is longer.
Longer(path, best) == Len(path) > Len(best)

\* The matching loop from position i of the enumeration on; best and
\* bestPath are the match found so far.
RECURSIVE AttributeFrom(_, _, _, _, _, _)
AttributeFrom(cwd, projects, order, i, best, bestPath) ==
  IF i > Len(order) THEN best
  ELSE LET name == order[i]
           entry == projects[name]
       IN IF Participates(entry) /\ IsUnder(cwd, entry.path) /\ Longer(entry.path, bestPath)
          THEN AttributeFrom(cwd, projects, order, i + 1, name, entry.path)
          ELSE AttributeFrom(cwd, projects, order, i + 1, best, bestPath)

\* attribute(cwd, registry): the enabled project with the longest matching
\* path, or _unmatched; order is the order the registry's projects come in.
Attribute(cwd, projects, order) ==
  IF cwd = <<>> THEN Unmatched
  ELSE AttributeFrom(cwd, projects, order, 1, Unmatched, <<>>)

\* --------------------------------------- usage aggregation (project_usage.py)

\* The instant "now" of a run, in hours; evaluated once per run.
Now == 1000

\* One message event of a session log: its time (hours), token counts and
\* the cost recorded with it (thousandths of a dollar).
Event(ts, input, output, cost) == [ts |-> ts, input |-> input, output |-> output, cost |-> cost]

SessionRecord(id, cwd, events) == [id |-> id, cwd |-> cwd, events |-> events]

\* Two events of the last day, below /a/b.
SessionUi == SessionRecord("s1", CwdABSlashC, <<Event(990, 100, 50, 10), Event(995, 20, 10, 2)>>)
\* One event 100 hours old and one 500 hours old, in /a/bc.
SessionBackup == SessionRecord("s2", PathABC, <<Event(900, 7, 3, 1), Event(500, 40, 2, 5)>>)
\* One event 600 hours old, outside every project.
SessionElsewhere == SessionRecord("s3", CwdD, <<Event(400, 5, 5, 1)>>)
\* One fresh event, in /a/b itself.
SessionRoot == SessionRecord("s4", PathAB, <<Event(999, 1, 1, 1)>>)
\* A header without cwd.
SessionNoCwd == SessionRecord("s5", <<>>, <<Event(998, 2, 0, 1)>>)

SessionSets ==
  { {SessionUi, SessionBackup, SessionElsewhere}, {SessionBackup, SessionRoot, SessionNoCwd} }

\* --days N, or no --days (all time)
NoDays == [given |-> FALSE, n |-> 0]
Days(n) == [given |-> TRUE, n |-> n]

\* --project NAME, or no --project
NoFilter == [given |-> FALSE, name |-> <<>>]
Filter(name) == [given |-> TRUE, name |-> name]

\* The event lies in the trailing window of days * 24 hours.
InWindow(e, days) == ~days.given \/ e.ts >= Now - days.n * 24

EventsInWindow(session, days) == SelectSeq(session.events, LAMBDA e : InWindow(e, days))

RECURSIVE SumEvents(_, _)
SumEvents(events, field) ==
  IF events = <<>> THEN 0 ELSE events[1][field] + SumEvents(Tail(events), field)

ZeroEntry ==
  [sessions |-> 0, totalTokens |-> 0, inputTokens |-> 0, outputTokens |-> 0, estimatedCostUSD |-> 0]

ZeroTotals == [sessions |-> 0, totalTokens |-> 0, estimatedCostUSD |-> 0]

NoEntries == [n \in {} |-> ZeroEntry]

EmptyResult == [ok |-> TRUE, projects |-> NoEntries, totals |-> ZeroTotals]

\* The script exits non-zero.
FailedResult == [ok |-> FALSE, projects |-> NoEntries, totals |-> ZeroTotals]

\* The grand totals count a session whatever the --project filter.
AddToTotalsUnfiltered(totals, events, included) ==
  [sessions |-> totals.sessions + 1,
   totalTokens |-> totals.totalTokens + SumEvents(events, "input") + SumEvents(events, "output"),
   estimatedCostUSD |-> totals.estimatedCostUSD + SumEvents(events, "cost")]

\* The grand totals take the events of a session that is part of the output.
AddToTotals(totals, events, included) ==
  IF ~included THEN totals
  ELSE [sessions |-> totals.sessions + 1,
        totalTokens |-> totals.totalTokens + SumEvents(events, "input") + SumEvents(events, "output"),
        estimatedCostUSD |-> totals.estimatedCostUSD + SumEvents(events, "cost")]

\* The entry of the owning project takes the in-window events of one session.
AddToEntry(entry, events) ==
  [sessions |-> entry.sessions + 1,
   totalTokens |-> entry.totalTokens + SumEvents(events, "input") + SumEvents(events, "output"),
   inputTokens |-> entry.inputTokens + SumEvents(events, "input"),
   outputTokens |-> entry.outputTokens + SumEvents(events, "output"),
   estimatedCostUSD |-> entry.estimatedCostUSD + SumEvents(events, "cost")]

\* The pass over the session logs from position i of the enumeration on.
RECURSIVE AggregateFrom(_, _, _, _, _, _, _)
AggregateFrom(projects, rorder, sorder, i, days, filter, acc) ==
  IF i > Len(sorder) THEN acc
  ELSE LET session == sorder[i]
           events == EventsInWindow(session, days)
           owner == Attribute(session.cwd, projects, rorder)
           included == ~filter.given \/ filter.name = owner
           old == IF owner \in DOMAIN acc.projects THEN acc.projects[owner] ELSE ZeroEntry
       IN IF events = <<>> THEN AggregateFrom(projects, rorder, sorder, i + 1, days, filter, acc)
          ELSE AggregateFrom(projects, rorder, sorder, i + 1, days, filter,
                 [ok |-> TRUE,
                  projects |-> IF included
                               THEN [n \in DOMAIN acc.projects \cup {owner} |->
                                       IF n = owner THEN AddToEntry(old, events) ELSE acc.projects[n]]
                               ELSE acc.projects,
                  totals |-> AddToTotals(acc.totals, events, included)])

\* One run of project_usage.py --format json [--days N] [--project NAME]:
\* the registry is read afresh; a missing registry gives the empty result.
ProjectUsage(file, sessions, days, filter, rorder, sorder) ==
  IF ~file.exists THEN EmptyResult
  ELSE IF ~file.json THEN FailedResult
  ELSE AggregateFrom(file.value.projects, rorder, sorder, 1, days, filter, EmptyResult)

\* The session logs on disk, with nothing computed (or what was computed out of date).
NothingComputed(sessions) ==
  [sessions |-> sessions, op |-> "none", fresh |-> FALSE, cwd |-> <<>>, project |-> Unmatched,
   days |-> NoDays, filter |-> NoFilter, out |-> FailedResult]

UsageIdle == NothingComputed({})

\* The projects of the registry file as a run sees them.
ProjectsRead(file) == IF file.exists /\ file.json THEN file.value.projects ELSE NoProjects

CwdInputs == {<<>>, PathA, PathAB, PathABC, CwdABSlashC, CwdD, PathAB \o <<"/">>}

DaysArgs == {NoDays, Days(7)}

FilterArgs == {NoFilter, Filter(NameB)}

\* attribute applied to one cwd under the registry on disk
AttributeRun(cwd, rorder) ==
  /\ registryFile.exists /\ registryFile.json
  /\ usage' = [NothingComputed(usage.sessions) EXCEPT
                 !.op = "attribute", !.fresh = TRUE, !.cwd = cwd,
                 !.project = Attribute(cwd, registryFile.value.projects, rorder)]
  /\ UNCHANGED <<gatewayVars, gitVars, hookVars, triageVars, uiVars>>

\* project_usage.py run to its end
UsageRun(days, filter, rorder, sorder) ==
  /\ usage' = [NothingComputed(usage.sessions) EXCEPT
                 !.op = "usage", !.fresh = TRUE, !.days = days, !.filter = filter,
                 !.out = ProjectUsage(registryFile, usage.sessions, days, filter, rorder, sorder)]
  /\ UNCHANGED <<gatewayVars, gitVars, hookVars, triageVars, uiVars>>

UsageToggleInputs ==
  {[NoParams EXCEPT !.project = JsString(n), !.enabled = JsBoolean(b)] :
     n \in DOMAIN TrackedPaths \cup {NameConstructor}, b \in BOOLEAN}

\* projects.toggle between two runs: what was computed is out of date
ToggleBetweenRuns(params) ==
  /\ Toggle(params, "ok", "ok")
  /\ acked' = Acknowledged(acked, registryFile, last')
  /\ usage' = NothingComputed(usage.sessions)
  /\ UNCHANGED <<gitVars, hookVars, triageVars, uiVars>>

\* ------------------------------------------ git activity (git_activity.py)

\* Consecutive commits at most this many minutes apart are one work session.
GapThresholdMinutes == 30

\* The least number of minutes a work session counts for.
MinSessionMinutes == 15

\* One line of git log: the commit and its time, in minutes.
Commit(hash, ts) == [hash |-> hash, ts |-> ts]

\* A day's commits: 09:00, 09:15, 09:45, 09:50, 10:21, and two at 14:00.
CommitsInRepo ==
  {Commit("c1", 540), Commit("c2", 555), Commit("c3", 585), Commit("c4", 590),
   Commit("c5", 621), Commit("c6", 840), Commit("c7", 840)}

\* git log of a set of commits: newest first, commits of the same minute in either order
RECURSIVE GitLog(_)
GitLog(S) ==
  IF S = {} THEN {<<>>}
  ELSE UNION { {<<c>> \o rest : rest \in GitLog(S \ {c})} :
                 c \in {x \in S : \A y \in S : y.ts <= x.ts} }

Reverse(seq) == [i \in 1..Len(seq) |-> seq[Len(seq) + 1 - i]]

\* Only a gap shorter than the threshold keeps the session.
SameSessionStrict(gap) == gap < GapThresholdMinutes

\* The next commit continues the work session of the one before it.
SameSession(gap) == gap <= GapThresholdMinutes

\* The clustering loop over the commits, oldest first, from position i on.
RECURSIVE ClusterFrom(_, _, _)
ClusterFrom(commits, i, clusters) ==
  IF i > Len(commits) THEN clusters
  ELSE IF clusters # <<>>
          /\ SameSession(commits[i].ts - clusters[Len(clusters)][Len(clusters[Len(clusters)])].ts)
  THEN ClusterFrom(commits, i + 1,
                   [clusters EXCEPT ![Len(clusters)] = Append(@, commits[i])])
  ELSE ClusterFrom(commits, i + 1, Append(clusters, <<commits[i]>>))

\* A work session lasts from its first to its last commit, and no less than the floor.
ClusterMinutes(cluster) ==
  LET span == cluster[Len(cluster)].ts - cluster[1].ts IN
  IF span < MinSessionMinutes THEN MinSessionMinutes ELSE span

RECURSIVE TotalMinutes(_)
TotalMinutes(clusters) ==
  IF clusters = <<>> THEN 0 ELSE ClusterMinutes(clusters[1]) + TotalMinutes(Tail(clusters))

\* One project's entry; estimatedHours is kept in minutes (hours times 60).
GitActivity(log) ==
  LET clusters == ClusterFrom(Reverse(log), 1, <<>>) IN
  [commits |-> Len(log), clusters |-> clusters, estimatedMinutes |-> TotalMinutes(clusters)]

GitRepo(log) == [log |-> log, done |-> FALSE, entry |-> GitActivity(<<>>)]

GitIdle == GitRepo(<<>>)

\* git_activity.py on one project's log
GitActivityRun ==
  /\ ~git.done
  /\ git' = [git EXCEPT !.done = TRUE, !.entry = GitActivity(git.log)]
  /\ UNCHANGED <<gatewayVars, usageVars, hookVars, triageVars, uiVars>>

\* ------------------------------------ hooks: brain-context and brain-ingest

\* ms before an attempt of brain-context is aborted
TIMEOUT_MS == 2000

\* ms before the request of brain-ingest is aborted
IngestTimeoutMs == 5000

\* for (let attempt = 0; attempt < 2; attempt++)
MaxAttempts == 2

\* createHookEvent(type, action, sessionKey, context)
HookEvent(type, action, success, sessionKey) ==
  [type |-> type, action |-> action, success |-> success, sessionKey |-> sessionKey]

SessionKeys == {"agent:main:main", "agent:main:other"}

HookEvents ==
  UNION {{HookEvent("message", "received", TRUE, k), HookEvent("message", "sent", TRUE, k),
          HookEvent("message", "sent", FALSE, k), HookEvent("command", "new", TRUE, k)}
         : k \in SessionKeys}

\* The last call of the cache's interface: its name and its session key
CacheOp(op, key) == [op |-> op, key |-> key]

NoCacheOp == CacheOp("none", "none")

\* A string: lead blanks, then core characters of the named text (the first and
\* the last of them not blank), then trail blanks, then suffix.
Str(text, lead, core, trail) ==
  [text |-> text, lead |-> lead, core |-> core, trail |-> trail, suffix |-> ""]

EmptyString == Str("", 0, 0, 0)

\* block.length
Length(s) == s.lead + s.core + s.trail + Len(s.suffix)

\* s.trim()
Trim(s) == IF s.core = 0 /\ s.suffix = "" THEN EmptyString
           ELSE [s EXCEPT !.lead = 0, !.trail = 0]

\* s.slice(0, n) of a trimmed string without suffix, n >= 0
SliceFromStart(s, n) == IF n < s.core THEN [s EXCEPT !.core = n] ELSE s

DefaultMaxTokens == 2000

CharsPerToken == 4

\* A value that may be missing: undefined, or the value
None == <<>>

Some(v) == <<v>>

\* process.env.BRAIN_CONTEXT_MAX_TOKENS: not set, or the number it parses to
MaxTokensSettings == {None, Some(0), Some(2)}

\* (parseInt(process.env.BRAIN_CONTEXT_MAX_TOKENS ?? "2000", 10) || 2000) * 4
MAX_CONTEXT_CHARS(setting) ==
  (IF setting = None THEN DefaultMaxTokens
   ELSE IF setting[1] = 0 THEN DefaultMaxTokens ELSE setting[1]) * CharsPerToken

TruncationMarker == "\n[...truncated]"

\* The block is cut to the budget and nothing is appended.
TruncateWithoutMarker(block, maxChars) ==
  IF Length(block) <= maxChars THEN block ELSE SliceFromStart(block, maxChars)

\* truncateContextBlock(block, maxChars)
truncateContextBlock(block, maxChars) ==
  IF Length(block) <= maxChars THEN block
  ELSE [SliceFromStart(block, maxChars) EXCEPT !.suffix = TruncationMarker]

\* The body of an OK response of /context/inject
InjectResponse(context_block, memories_used, identity, entities) ==
  [context_block |-> context_block, memories_used |-> memories_used,
   identity |-> identity, entities |-> entities]

\* return {} of fetchContextInject
NoFields == InjectResponse(None, None, None, None)

InjectResponses ==
  {NoFields,
   InjectResponse(Some(Str("", 2, 0, 0)), Some(0), Some("SpookyJuice agent"), None),
   InjectResponse(None, Some(3), None, Some(<<"Brian">>)),
   InjectResponse(Some(Str("memory", 0, 8, 0)), Some(0), None, None),
   InjectResponse(Some(Str("memory", 1, 9, 1)), Some(3), Some("SpookyJuice agent"), Some(<<"Brian">>)),
   InjectResponse(Some(Str("long memory", 0, 8000, 0)), Some(3), None, None),
   InjectResponse(Some(Str("long memory", 0, 8001, 2)), Some(5), Some("SpookyJuice agent"), None)}

\* result.context_block?.trim() ?? ""
ContextBlockOf(result) ==
  IF result.context_block = None THEN EmptyString ELSE Trim(result.context_block[1])

\* result.memories_used ?? 0
MemoriesUsedOf(result) == IF result.memories_used = None THEN 0 ELSE result.memories_used[1]

\* A response is kept only when it has both a context block and memories.
HasBlockAndMemories(result) == ContextBlockOf(result) # EmptyString /\ MemoriesUsedOf(result) # 0

\* not (!contextBlock && memoriesUsed === 0)
HasContext(result) == ContextBlockOf(result) # EmptyString \/ MemoriesUsedOf(result) # 0

\* const payload: BrainContextPayload = { ... } (retrievalMs, a duration, left out)
Payload(result, maxChars) ==
  [contextBlock |-> truncateContextBlock(ContextBlockOf(result), maxChars),
   memoriesUsed |-> MemoriesUsedOf(result),
   identity |-> result.identity,
   entities |-> result.entities]

DEFAULT_TTL_MS == 30000

\* cache.get(sessionKey) of a key that is not in the map
NoEntry == None

\* const cache = new Map<string, CacheEntry>()
EmptyCache == [k \in SessionKeys |-> NoEntry]

\* cache.set(sessionKey, { payload, expiresAt: Date.now() + DEFAULT_TTL_MS })
SetBrainContext(cache, sessionKey, payload, now) ==
  [cache EXCEPT ![sessionKey] = Some([payload |-> payload, expiresAt |-> now + DEFAULT_TTL_MS])]

\* An entry is dropped as soon as its time has come.
ExpiredAtDeadline(now, expiresAt) == now >= expiresAt

\* Date.now() > entry.expiresAt
Expired(now, expiresAt) == now > expiresAt

\* getBrainContext(sessionKey): what it returns and the map it leaves
GetBrainContext(cache, sessionKey, now) ==
  IF cache[sessionKey] = NoEntry THEN [returns |-> None, cache |-> cache]
  ELSE IF Expired(now, cache[sessionKey][1].expiresAt)
  THEN [returns |-> None, cache |-> [cache EXCEPT ![sessionKey] = NoEntry]]
  ELSE [returns |-> Some(cache[sessionKey][1].payload), cache |-> cache]

\* clearBrainContext(sessionKey): cache.delete(sessionKey)
ClearBrainContext(cache, sessionKey) == [cache EXCEPT ![sessionKey] = NoEntry]

\* clearAllBrainContext(): cache.clear()
ClearAllBrainContext(cache) == EmptyCache

\* The payloads the callers of the cache set.
CachePayloads ==
  {Payload(InjectResponse(Some(Str("memory", 0, 8, 0)), Some(0), None, None), MAX_CONTEXT_CHARS(None)),
   Payload(InjectResponse(None, Some(3), None, Some(<<"Brian">>)), MAX_CONTEXT_CHARS(None))}

\* How far Date.now() moves between two calls, in ms.
ClockSteps == {1, DEFAULT_TTL_MS - 1, DEFAULT_TTL_MS}

CacheSet(sessionKey, payload) ==
  /\ hook' = [hook EXCEPT !.cache = SetBrainContext(@, sessionKey, payload, hook.now),
                          !.cacheOp = CacheOp("set", sessionKey),
                          !.lastSet = [@ EXCEPT ![sessionKey] = Some([payload |-> payload, at |-> hook.now])]]
  /\ UNCHANGED <<gatewayVars, usageVars, gitVars, triageVars, uiVars>>

CacheGet(sessionKey) ==
  /\ hook' = LET r == GetBrainContext(hook.cache, sessionKey, hook.now) IN
             [hook EXCEPT !.cache = r.cache, !.got = r.returns,
                          !.cacheOp = CacheOp("get", sessionKey)]
  /\ UNCHANGED <<gatewayVars, usageVars, gitVars, triageVars, uiVars>>

CacheClear(sessionKey) ==
  /\ hook' = [hook EXCEPT !.cache = ClearBrainContext(@, sessionKey),
                          !.cacheOp = CacheOp("clear", sessionKey),
                          !.lastSet = [@ EXCEPT ![sessionKey] = None]]
  /\ UNCHANGED <<gatewayVars, usageVars, gitVars, triageVars, uiVars>>

CacheClearAll ==
  /\ hook' = [hook EXCEPT !.cache = ClearAllBrainContext(@),
                          !.cacheOp = CacheOp("clearAll", "none"),
                          !.lastSet = [k \in SessionKeys |-> None]]
  /\ UNCHANGED <<gatewayVars, usageVars, gitVars, triageVars, uiVars>>

\* Time passes between two calls.
ClockAdvances(ms) ==
  /\ hook.ticks < MaxTicks
  /\ hook' = [hook EXCEPT !.now = @ + ms, !.ticks = @ + 1, !.cacheOp = NoCacheOp]
  /\ UNCHANGED <<gatewayVars, usageVars, gitVars, triageVars, uiVars>>

\* process.env.INTELLIGENCE_URL: a URL, only blanks, or not set
UrlSettings == {"set", "blank", "unset"}

\* The value is tested without trim(): only blanks counts as a URL.
IntelligenceUrlUntrimmed(url) == url # "unset"

\* process.env.INTELLIGENCE_URL?.trim() is truthy
IntelligenceUrl(url) == url = "set"

IsMessageReceivedEvent(event) == event.type = "message" /\ event.action = "received"

IsMessageSentEvent(event) == event.type = "message" /\ event.action = "sent"

\* fetch(`${url}${endpoint}`, { method: "POST", ... }): the endpoint, the role
\* of the message in the body and the field of the event context sent as user
Post(endpoint, role, user) == [endpoint |-> endpoint, role |-> role, user |-> user]

\* setTimeout(() => controller.abort(), ms)
SetTimeout(ms) == [ms |-> ms, pending |-> TRUE, fired |-> FALSE, cleared |-> FALSE]

\* The finally block is left out: the timer stays as it is.
ClearTimeoutForgotten(timers) == timers

\* finally { clearTimeout(timeout) }: the timer of the attempt that ends
ClearTimeout(timers) ==
  [timers EXCEPT ![Len(timers)] = [@ EXCEPT !.pending = FALSE, !.cleared = TRUE]]

\* The timer of the running attempt fires: controller.abort()
Fire(timers) ==
  [timers EXCEPT ![Len(timers)] = [@ EXCEPT !.pending = FALSE, !.fired = TRUE]]

\* A handler not yet invoked.
HookIdle ==
  [handler |-> "none", event |-> HookEvent("none", "none", FALSE, "none"), url |-> "unset",
   pc |-> "idle", attempt |-> 0, posts |-> <<>>, attempts |-> <<>>, timers |-> <<>>,
   settled |-> "pending", cache |-> EmptyCache, logs |-> <<>>,
   response |-> None, writes |-> 0, maxChars |-> MAX_CONTEXT_CHARS(None), now |-> 0,
   got |-> None, cacheOp |-> NoCacheOp, lastSet |-> [k \in SessionKeys |-> None], ticks |-> 0]

\* A handler is called with event: the cache is what earlier invocations left.
Invoked(h, handler, event, url) ==
  [HookIdle EXCEPT !.handler = handler, !.event = event, !.url = url, !.cache = h.cache,
                   !.maxChars = h.maxChars, !.now = h.now]

\* The handler returns: its promise resolves to undefined.
Returned(h) == [h EXCEPT !.pc = "done", !.settled = "resolved"]

\* Any failed attempt is tried again.
ShouldRetryAnyError(errName, attempt) == attempt = 0

\* err.name === "AbortError" and attempt === 0: continue
ShouldRetry(errName, attempt) == errName = "AbortError" /\ attempt = 0

\* The catch block throws what it caught.
ContextCatchRethrows(h) == [h EXCEPT !.pc = "done", !.settled = "rejected"]

\* catch (err) { log.warn("BRAIN_CONTEXT_FAILED", ...) } of brainContext
ContextCatch(h) == Returned([h EXCEPT !.logs = Append(@, "BRAIN_CONTEXT_FAILED")])

\* One iteration of the loop of fetchWithRetry up to its await
ContextAttempt(h, attempt) ==
  [h EXCEPT !.pc = "fetching", !.attempt = attempt,
            !.timers = Append(@, SetTimeout(TIMEOUT_MS)),
            !.posts = Append(@, Post("/context/inject", "user", "none"))]

\* The attempt threw err: catch, finally, and the next iteration or the throw
\* that reaches the catch of brainContext.
ContextAttemptThrew(h, errName, outcome) ==
  LET ended == [h EXCEPT !.timers = ClearTimeout(@), !.attempts = Append(@, outcome)] IN
  IF ShouldRetry(errName, h.attempt) /\ h.attempt + 1 < MaxAttempts
  THEN ContextAttempt([ended EXCEPT !.logs = Append(@, "BRAIN_CONTEXT_TIMEOUT: retrying")], h.attempt + 1)
  ELSE ContextCatch(ended)

\* fetchWithRetry returned result: the rest of the try block of brainContext
ContextGotResult(h, outcome, result) ==
  LET ended == [h EXCEPT !.timers = ClearTimeout(@), !.attempts = Append(@, outcome),
                         !.response = Some(result)] IN
  IF ~HasContext(result)
  THEN Returned([ended EXCEPT !.logs = Append(@, "BRAIN_CONTEXT_RETRIEVED: no relevant memories")])
  ELSE Returned([ended EXCEPT !.cache = SetBrainContext(@, h.event.sessionKey,
                                                        Payload(result, h.maxChars), h.now),
                              !.writes = @ + 1,
                              !.logs = Append(@, "BRAIN_CONTEXT_RETRIEVED")])

\* brainContext(event) up to its first await
ContextInvoke(event, url) ==
  /\ hook.pc \in {"idle", "done"}
  /\ hook' = IF event.type # "message" \/ ~IsMessageReceivedEvent(event) \/ ~IntelligenceUrl(url)
             THEN Returned(Invoked(hook, "brain-context", event, url))
             ELSE ContextAttempt(Invoked(hook, "brain-context", event, url), 0)
  /\ UNCHANGED <<gatewayVars, usageVars, gitVars, triageVars, uiVars>>

FetchOutcomes == {"error", "non-ok", "ok"}

\* The fetch of the running attempt settles: a network error, or a response
ContextFetchSettles(outcome) ==
  /\ hook.handler = "brain-context" /\ hook.pc = "fetching"
  /\ hook' = IF outcome = "error" THEN ContextAttemptThrew(hook, "TypeError", "error")
             ELSE IF outcome = "non-ok"
             THEN ContextGotResult([hook EXCEPT !.logs = Append(@, "non-OK status")], "non-ok", NoFields)
             ELSE [hook EXCEPT !.pc = "reading"]
  /\ UNCHANGED <<gatewayVars, usageVars, gitVars, triageVars, uiVars>>

\* What response.json() can give: a response, or a body that is not JSON
Bodies == {Some(r) : r \in InjectResponses} \cup {None}

\* await response.json() settles
ContextJsonSettles(body) ==
  /\ hook.handler = "brain-context" /\ hook.pc = "reading"
  /\ hook' = IF body = None THEN ContextAttemptThrew(hook, "SyntaxError", "unparsable")
             ELSE ContextGotResult(hook, IF HasContext(body[1]) THEN "memories" ELSE "empty", body[1])
  /\ UNCHANGED <<gatewayVars, usageVars, gitVars, triageVars, uiVars>>

\* The timer of the running attempt fires while fetch or the body read is
\* awaited: the signal aborts and the await throws an AbortError.
ContextTimerFires ==
  /\ hook.handler = "brain-context" /\ hook.pc \in {"fetching", "reading"}
  /\ hook' = ContextAttemptThrew([hook EXCEPT !.timers = Fire(@)], "AbortError", "timeout")
  /\ UNCHANGED <<gatewayVars, usageVars, gitVars, triageVars, uiVars>>

\* postToIngest up to its await
PostToIngest(h, role, user) ==
  [h EXCEPT !.pc = "fetching",
            !.timers = Append(@, SetTimeout(IngestTimeoutMs)),
            !.posts = Append(@, Post("/ingest", role, user))]

\* Every message:sent event is ingested, delivered or not.
SendAttempted(event) == TRUE

\* ctx.success of a message:sent event
SendSucceeded(event) == event.success

\* catch (err) of brainIngest: a warning for a timeout, an error otherwise
IngestCatch(h, errName) ==
  Returned([h EXCEPT !.logs = Append(@, IF errName = "AbortError"
                                        THEN "Intelligence service request timed out"
                                        ELSE "Failed to ingest message")])

\* brainIngest(event) up to its first await
IngestInvoke(event, url) ==
  /\ hook.pc \in {"idle", "done"}
  /\ hook' = LET h == Invoked(hook, "brain-ingest", event, url) IN
             IF event.type # "message" \/ ~IntelligenceUrl(url) THEN Returned(h)
             ELSE IF IsMessageReceivedEvent(event) THEN PostToIngest(h, "user", "from")
             ELSE IF IsMessageSentEvent(event)
             THEN (IF ~SendSucceeded(event) THEN Returned(h) ELSE PostToIngest(h, "assistant", "to"))
             ELSE Returned(h)
  /\ UNCHANGED <<gatewayVars, usageVars, gitVars, triageVars, uiVars>>

\* The fetch of postToIngest settles
IngestFetchSettles(outcome) ==
  /\ hook.handler = "brain-ingest" /\ hook.pc = "fetching"
  /\ hook' = LET ended == [hook EXCEPT !.timers = ClearTimeout(@), !.attempts = Append(@, outcome)] IN
             IF outcome = "error" THEN IngestCatch(ended, "TypeError")
             ELSE IF outcome = "non-ok"
             THEN Returned([ended EXCEPT !.logs = Append(@, "non-OK status") \o <<"Ingested">>])
             ELSE Returned([ended EXCEPT !.logs = Append(@, "Ingested")])
  /\ UNCHANGED <<gatewayVars, usageVars, gitVars, triageVars, uiVars>>

\* The timer of postToIngest fires: the fetch is aborted
IngestTimerFires ==
  /\ hook.handler = "brain-ingest" /\ hook.pc = "fetching"
  /\ hook' = IngestCatch([hook EXCEPT !.timers = ClearTimeout(Fire(@)),
                                      !.attempts = Append(@, "timeout")], "AbortError")
  /\ UNCHANGED <<gatewayVars, usageVars, gitVars, triageVars, uiVars>>

\* ------------------------------------------------- scripts/triage.sh

\* A message of the mailbox: the words of its sender, subject and body, its
\* Gmail category, its age in days, and its place in the newest-first order.
Message(id, from, subject, body, category, ageDays) ==
  [id |-> id, from |-> from, subject |-> subject, body |-> body,
   category |-> category, ageDays |-> ageDays]

Mailbox ==
  {Message(1, {"paypal"}, {"receipt"}, {}, "primary", 1),
   Message(2, {"noreply"}, {"verify", "account"}, {}, "primary", 2),
   Message(3, {"airline"}, {"itinerary"}, {"unsubscribe"}, "promotions", 3),
   Message(4, {"github"}, {"build", "failed"}, {}, "social", 4),
   Message(5, {"friend"}, {"hello"}, {}, "primary", 5),
   Message(6, {"bank"}, {"statement"}, {}, "primary", 45)}

\* One of the terms (a word, or the words of a phrase) is in the field.
HasAny(field, terms) == \E t \in terms : t \subseteq field

NewerThanDays == 30

\* The labels in the order of the apply_category calls, and whether the call
\* passes true as should_archive.
Categories ==
  <<[label |-> "Triage/Security", archive |-> FALSE],
    [label |-> "Triage/Finance", archive |-> FALSE],
    [label |-> "Triage/Travel", archive |-> FALSE],
    [label |-> "Triage/Receipts", archive |-> TRUE],
    [label |-> "Triage/Shipping", archive |-> TRUE],
    [label |-> "Triage/Calendar", archive |-> TRUE],
    [label |-> "Triage/Automated", archive |-> TRUE],
    [label |-> "Triage/Newsletters", archive |-> TRUE],
    [label |-> "Triage/Notifications", archive |-> TRUE],
    [label |-> "Triage/Social", archive |-> TRUE],
    [label |-> "Triage/Promotions", archive |-> TRUE]>>

\* The labels of the "Create all labels first" loop
AllLabels == {Categories[i].label : i \in DOMAIN Categories} \cup {"Triage/Action-Required"}

\* The query of the apply_category call of label, without in:inbox and newer_than:30d
QueryTerms(label, m) ==
  CASE label = "Triage/Security" ->
         HasAny(m.subject, {{"password", "reset"}, {"verify"}, {"security", "alert"},
                            {"suspicious"}, {"two-factor"}, {"2FA"}})
    [] label = "Triage/Finance" ->
         \/ HasAny(m.from, {{"bank"}, {"paypal"}, {"venmo"}, {"stripe"}, {"chase"}, {"wells"}})
         \/ HasAny(m.subject, {{"statement"}, {"balance"}, {"transaction"}})
    [] label = "Triage/Travel" ->
         \/ HasAny(m.from, {{"airline"}, {"hotel"}, {"airbnb"}, {"booking"}, {"expedia"}})
         \/ HasAny(m.subject, {{"itinerary"}, {"boarding"}, {"reservation"}})
    [] label = "Triage/Receipts" ->
         HasAny(m.subject, {{"receipt"}, {"invoice"}, {"order", "confirmation"},
                            {"payment", "confirmed"}})
    [] label = "Triage/Shipping" ->
         HasAny(m.subject, {{"shipped"}, {"tracking"}, {"delivery"}, {"out", "for", "delivery"},
                            {"package"}})
    [] label = "Triage/Calendar" ->
         \/ HasAny(m.subject, {{"invitation"}, {"invite"}, {"RSVP"}, {"calendar", "event"}})
         \/ HasAny(m.from, {{"calendar-notification"}})
    [] label = "Triage/Automated" ->
         HasAny(m.from, {{"cron"}, {"jenkins"}, {"github"}, {"gitlab"}, {"sentry"}, {"datadog"}})
    [] label = "Triage/Newsletters" ->
         /\ HasAny(m.from \cup m.subject \cup m.body, {{"unsubscribe"}})
         /\ ~HasAny(m.subject, {{"receipt"}, {"invoice"}})
    [] label = "Triage/Notifications" ->
         /\ HasAny(m.from, {{"notify"}, {"notification"}, {"noreply"}, {"no-reply"}})
         /\ ~HasAny(m.subject, {{"receipt"}, {"invoice"}, {"password"}, {"security"}})
    [] label = "Triage/Social" -> m.category = "social"
    [] label = "Triage/Promotions" -> m.category = "promotions"
    [] OTHER -> FALSE

\* The n newest messages of S
RECURSIVE Newest(_, _)
Newest(S, n) ==
  IF n = 0 \/ S = {} THEN {}
  ELSE LET m == CHOOSE x \in S : \A y \in S : x.id <= y.id IN {m} \cup Newest(S \ {m}, n - 1)

\* gog gmail messages search "$query" --max "$MAX": the ids found
Search(t, label) ==
  {m.id : m \in Newest({m \in t.messages :
                          /\ t.mail[m.id].inInbox
                          /\ m.ageDays < NewerThanDays
                          /\ QueryTerms(label, m)}, t.opts.max)}

\* The flag is not looked at: the script changes the mailbox in every run.
DryRunIgnored(opts) == FALSE

\* [[ "$DRY_RUN" == "true" ]]
DryRun(opts) == opts.dryRun

\* A command that changes the account: labels create, or messages modify
Change(cmd, label, id) == [cmd |-> cmd, label |-> label, id |-> id]

\* ensure_label "$label_name"
EnsureLabel(t, label) ==
  IF label \in t.labels \/ DryRun(t.opts) THEN t
  ELSE [t EXCEPT !.labels = @ \cup {label},
                 !.changes = @ \cup {Change("labels create", label, 0)}]

RECURSIVE EnsureLabels(_, _)
EnsureLabels(t, labels) ==
  IF labels = {} THEN t
  ELSE LET l == CHOOSE x \in labels : TRUE IN EnsureLabels(EnsureLabel(t, l), labels \ {l})

\* gog gmail messages modify "$msg_id" --add-labels "$label_id", for each id found
AddLabels(t, label, ids) ==
  [t EXCEPT !.mail = [id \in DOMAIN @ |->
                        IF id \in ids THEN [@[id] EXCEPT !.labels = @ \cup {label}] ELSE @[id]],
            !.changes = @ \cup {Change("modify --add-labels", label, id) : id \in ids}]

\* gog gmail messages modify "$msg_id" --remove-labels INBOX, for each id found
RemoveFromInbox(t, ids) ==
  [t EXCEPT !.mail = [id \in DOMAIN @ |->
                        IF id \in ids THEN [@[id] EXCEPT !.inInbox = FALSE] ELSE @[id]],
            !.changes = @ \cup {Change("modify --remove-labels", "INBOX", id) : id \in ids}]

\* apply_category "$label_name" "$query" "$should_archive"
ApplyCategoryTo(t, label, shouldArchive) ==
  IF Search(t, label) = {} \/ DryRun(t.opts) THEN t
  ELSE LET ensured == EnsureLabel(t, label)
           labelled == AddLabels(ensured, label, Search(ensured, label))
       IN IF t.opts.archive /\ shouldArchive
          THEN RemoveFromInbox(labelled, Search(labelled, label))
          ELSE labelled

TriageOptions == [archive : BOOLEAN, dryRun : BOOLEAN, max : {1, 200}]

\* The script is started with opts on an account with these messages in the
\* inbox and these labels.
TriageRun(opts, messages, labels) ==
  [opts |-> opts, messages |-> messages, labels |-> labels,
   mail |-> [id \in {m.id : m \in messages} |-> [inInbox |-> TRUE, labels |-> {}]],
   step |-> 0, changes |-> {}]

\* No run: the script has come to its end on an empty inbox.
TriageIdle ==
  [TriageRun([archive |-> FALSE, dryRun |-> FALSE, max |-> 200], {}, AllLabels)
     EXCEPT !.step = Len(Categories) + 1]

\* for label in ...; do ensure_label "$label"; done
CreateAllLabels ==
  /\ triage.step = 0
  /\ triage' = [EnsureLabels(triage, AllLabels) EXCEPT !.step = 1]
  /\ UNCHANGED <<gatewayVars, usageVars, gitVars, hookVars, uiVars>>

\* The next apply_category call of the script
ApplyCategory ==
  /\ triage.step \in DOMAIN Categories
  /\ triage' = [ApplyCategoryTo(triage, Categories[triage.step].label,
                                Categories[triage.step].archive)
                  EXCEPT !.step = triage.step + 1]
  /\ UNCHANGED <<gatewayVars, usageVars, gitVars, hookVars, uiVars>>

\* ------------------------------------------------- control UI: projects

\* The requests of one loadProjects call
BatchMethods == {"projects.list", "projects.usage", "projects.git"}

\* A request that has not been answered yet, and one that was rejected
Pending == [status |-> "pending", value |-> None]

Rejected == [status |-> "rejected", value |-> None]

\* A request answered with value (None: a falsy result)
Resolved(value) == [status |-> "resolved", value |-> value]

\* Promise.all([...]) of the three requests, and whether the await has returned
Batch == [requests |-> [m \in BatchMethods |-> Pending], settled |-> FALSE]

\* The fields of ProjectsState the functions read and write (projectsDays, a
\* parameter of the requests, is left out)
ProjectsState(client, connected) ==
  [client |-> client, connected |-> connected, projectsLoading |-> FALSE,
   projectsRegistry |-> None, projectsUsage |-> None, projectsGit |-> None,
   projectsError |-> None, projectsScanning |-> FALSE]

\* A result of the gateway: the call it answers (its function and number) and
\* the enabled flag of the project in the registry it was made from
Result(fn, n, enabled) == Some([from |-> <<fn, n>>, enabled |-> enabled])

\* A state object nothing was called on: the batches, scans and toggles that
\* issued requests, the last call made, and the enabled flag of the project
\* in the registry file of the gateway
UiIdle ==
  [state |-> ProjectsState(FALSE, FALSE), batches |-> <<>>, scans |-> <<>>, toggles |-> <<>>,
   lastCall |-> "none", gateway |-> FALSE]

\* A call made while a batch is awaited goes ahead all the same.
LoadReturnsEarlyUnlessConnected(state) == ~state.client \/ ~state.connected

\* if (!state.client || !state.connected) return; if (state.projectsLoading) return;
LoadReturnsEarly(state) == ~state.client \/ ~state.connected \/ state.projectsLoading

\* loadProjects(state) up to its await
LoadProjects ==
  /\ LoadReturnsEarly(ui.state) \/ Len(ui.batches) < MaxBatches
  /\ ui' = IF LoadReturnsEarly(ui.state)
           THEN [ui EXCEPT !.lastCall = "returned early"]
           ELSE [ui EXCEPT !.lastCall = "started",
                           !.state.projectsLoading = TRUE,
                           !.state.projectsError = None,
                           !.batches = Append(@, Batch)]
  /\ UNCHANGED <<gatewayVars, usageVars, gitVars, hookVars, triageVars>>

\* if (res) state.field = res
AssignIfTruthy(old, res) == IF res = None THEN old ELSE res

\* The rest of loadProjects once Promise.all has resolved with the three results
LoadResolved(state, requests) ==
  [state EXCEPT !.projectsRegistry = AssignIfTruthy(@, requests["projects.list"].value),
                !.projectsUsage = AssignIfTruthy(@, requests["projects.usage"].value),
                !.projectsGit = AssignIfTruthy(@, requests["projects.git"].value),
                !.projectsLoading = FALSE]

\* The flag is not reset when the batch fails.
LoadRejectedFlagStays(state, b) == [state EXCEPT !.projectsError = Some(b)]

\* The catch block also stores a result of the failed batch.
LoadRejectedAssigns(state, b) ==
  [state EXCEPT !.projectsError = Some(b), !.projectsLoading = FALSE,
                !.projectsRegistry = Result("loadProjects", b, FALSE)]

\* catch (err) { state.projectsError = String(err) } finally { state.projectsLoading = false }
LoadRejected(state, b) ==
  [state EXCEPT !.projectsError = Some(b), !.projectsLoading = FALSE]

\* What the gateway can answer to a request of call n of fn: a result made
\* from its registry, nothing, or a failure
Answers(fn, n, enabled) == {Resolved(Result(fn, n, enabled)), Resolved(None), Rejected}

\* The scanProjects calls that await the loadProjects call of batch b go on:
\* finally { state.projectsScanning = false }
ReloadReturns(u, b) ==
  IF \E i \in DOMAIN u.scans : u.scans[i].pc = "reload" /\ u.scans[i].batch = b
  THEN [u EXCEPT !.scans = [i \in DOMAIN @ |->
                             IF @[i].pc = "reload" /\ @[i].batch = b
                             THEN [@[i] EXCEPT !.pc = "done"] ELSE @[i]],
                 !.state.projectsScanning = FALSE]
  ELSE u

\* A request of batch b is answered; Promise.all rejects with the first
\* rejection and resolves with the last result, and the call goes on from its
\* await; answers to a batch that was rejected are dropped.
RequestSettles(b, method, answer) ==
  /\ b \in DOMAIN ui.batches
  /\ ui.batches[b].requests[method] = Pending
  /\ LET requests == [ui.batches[b].requests EXCEPT ![method] = answer]
         rejects == answer = Rejected
         resolves == \A m \in BatchMethods : requests[m].status = "resolved"
     IN ui' = IF ui.batches[b].settled \/ ~(rejects \/ resolves)
              THEN [ui EXCEPT !.batches[b].requests = requests, !.lastCall = "none"]
              ELSE ReloadReturns([ui EXCEPT !.batches[b] = [requests |-> requests, settled |-> TRUE],
                                            !.state = IF rejects THEN LoadRejected(@, b)
                                                      ELSE LoadResolved(@, requests),
                                            !.lastCall = "none"], b)
  /\ UNCHANGED <<gatewayVars, usageVars, gitVars, hookVars, triageVars>>

\* The gateway connection comes and goes: the host sets client and connected.
ConnectionChanges(client, connected) ==
  /\ ui.state.client # client \/ ui.state.connected # connected
  /\ ui' = [ui EXCEPT !.state.client = client, !.state.connected = connected,
                      !.lastCall = "none"]
  /\ UNCHANGED <<gatewayVars, usageVars, gitVars, hookVars, triageVars>>

\* if (!state.client || !state.connected) return
ReturnsEarly(state) == ~state.client \/ ~state.connected

\* A scanProjects call: where it is, whether its projects.scan request was
\* answered with success, the batch of its reload (0: none), and whether its
\* reload issued requests
ScanCall == [pc |-> "scan", ok |-> FALSE, batch |-> 0, reloaded |-> FALSE]

\* scanProjects(state) up to its await
ScanProjects ==
  /\ ReturnsEarly(ui.state) \/ Len(ui.scans) < MaxScans
  /\ ui' = IF ReturnsEarly(ui.state)
           THEN [ui EXCEPT !.lastCall = "returned early"]
           ELSE [ui EXCEPT !.lastCall = "started",
                           !.state.projectsScanning = TRUE,
                           !.scans = Append(@, ScanCall)]
  /\ UNCHANGED <<gatewayVars, usageVars, gitVars, hookVars, triageVars>>

\* catch (err) { state.projectsError = String(err) } finally { state.projectsScanning = false }
ScanRejected(u, i) ==
  [u EXCEPT !.scans[i].pc = "done", !.state.projectsError = Some(i),
            !.state.projectsScanning = FALSE]

\* The call returns: finally { state.projectsScanning = false }
ScanReturns(u, i) == [u EXCEPT !.scans[i].pc = "done", !.state.projectsScanning = FALSE]

\* The projects.scan request of call i is answered: the result is stored and
\* loadProjects is called; the call returns with it when it returns early and
\* waits for its batch otherwise.
ScanSettles(i, answer) ==
  /\ i \in DOMAIN ui.scans
  /\ ui.scans[i].pc = "scan"
  /\ answer = Rejected \/ LoadReturnsEarly(ui.state) \/ Len(ui.batches) < MaxBatches
  /\ ui' = IF answer = Rejected THEN [ScanRejected(ui, i) EXCEPT !.lastCall = "none"]
           ELSE LET stored == [ui EXCEPT !.state.projectsRegistry = AssignIfTruthy(@, answer.value),
                                         !.scans[i].ok = TRUE,
                                         !.lastCall = "none"] IN
                IF LoadReturnsEarly(stored.state) THEN ScanReturns(stored, i)
                ELSE [stored EXCEPT !.state.projectsLoading = TRUE,
                                    !.state.projectsError = None,
                                    !.batches = Append(@, Batch),
                                    !.scans[i] = [pc |-> "reload", ok |-> TRUE,
                                                  batch |-> Len(ui.batches) + 1,
                                                  reloaded |-> TRUE]]
  /\ UNCHANGED <<gatewayVars, usageVars, gitVars, hookVars, triageVars>>

\* A toggleProject call: the flag it asks for, where it is, and whether the
\* gateway acknowledged it with success
ToggleCall(enabled) == [enabled |-> enabled, pc |-> "pending", ok |-> FALSE]

\* toggleProject(state, projectName, enabled) up to its await
ToggleProject(enabled) ==
  /\ ReturnsEarly(ui.state) \/ Len(ui.toggles) < MaxToggles
  /\ ui' = IF ReturnsEarly(ui.state)
           THEN [ui EXCEPT !.lastCall = "toggle returned early"]
           ELSE [ui EXCEPT !.lastCall = "toggle started",
                           !.toggles = Append(@, ToggleCall(enabled))]
  /\ UNCHANGED <<gatewayVars, usageVars, gitVars, hookVars, triageVars>>

\* if (state.projectsRegistry?.projects?.[projectName])
\*   state.projectsRegistry.projects[projectName].enabled = enabled
SetLocalEnabled(registry, enabled) ==
  IF registry = None THEN None ELSE Some([registry[1] EXCEPT !.enabled = enabled])

\* The local flag is set also when the request failed.
ToggleRejectedApplies(u, i) ==
  [u EXCEPT !.toggles[i].pc = "done", !.state.projectsError = Some(i),
            !.state.projectsRegistry = SetLocalEnabled(@, u.toggles[i].enabled)]

\* catch (err) { state.projectsError = String(err) }
ToggleRejected(u, i) ==
  [u EXCEPT !.toggles[i].pc = "done", !.state.projectsError = Some(i)]

\* The request resolved: the gateway has written the flag to its registry
\* file, and the local copy of the registry is updated.
ToggleResolved(u, i) ==
  [u EXCEPT !.toggles[i].pc = "done", !.toggles[i].ok = TRUE,
            !.gateway = u.toggles[i].enabled,
            !.state.projectsRegistry = SetLocalEnabled(@, u.toggles[i].enabled)]

\* The projects.toggle request of call i is answered
ToggleSettles(i, ok) ==
  /\ i \in DOMAIN ui.toggles
  /\ ui.toggles[i].pc = "pending"
  /\ ui' = [(IF ok THEN ToggleResolved(ui, i) ELSE ToggleRejected(ui, i)) EXCEPT !.lastCall = "none"]
  /\ UNCHANGED <<gatewayVars, usageVars, gitVars, hookVars, triageVars>>

\* ------------------------------------------------------------------ spec

Init ==
  /\ registryFile \in {MissingFile, CorruptFile} \cup {FileOf("scanner", r) : r \in InitialRegistries}
  /\ inflight = [c \in Continuations |-> 0]
  /\ last = Idle
  /\ acked = NoAcks
  /\ usage = UsageIdle
  /\ git = GitIdle
  /\ hook = HookIdle
  /\ triage = TriageIdle
  /\ ui = UiIdle

Next ==
  \/ \E rd \in ReadOutcomes : List(rd) /\ acked' = NoAcks /\ UNCHANGED offGatewayVars
  \/ \E p \in ToggleInputs, rd \in ReadOutcomes, wr \in WriteOutcomes :
       Toggle(p, rd, wr) /\ acked' = Acknowledged(acked, registryFile, last') /\ UNCHANGED offGatewayVars
  \/ \E p \in UsageInputs, x \in BOOLEAN : UsageStart(p, x) /\ acked' = NoAcks /\ UNCHANGED offGatewayVars
  \/ \E p \in UsageInputs, x \in BOOLEAN : GitStart(p, x) /\ acked' = NoAcks /\ UNCHANGED offGatewayVars
  \/ \E roots \in RootsInputs, x \in BOOLEAN : ScanStart(roots, x) /\ acked' = NoAcks /\ UNCHANGED offGatewayVars
  \/ \E child \in ChildBehaviours : UsageFinish(child) /\ acked' = NoAcks /\ UNCHANGED offGatewayVars
  \/ \E child \in ChildBehaviours : GitFinish(child) /\ acked' = NoAcks /\ UNCHANGED offGatewayVars
  \/ \E stage \in {"running", "written"}, child \in ChildBehaviours, rd \in ReadOutcomes :
       ScanFinish(stage, child, rd) /\ acked' = NoAcks /\ UNCHANGED offGatewayVars
  \/ ScannerWrite /\ acked' = NoAcks /\ UNCHANGED offGatewayVars

Spec == Init /\ [][Next]_vars

\* Attribution and usage runs over the registry, with toggles between them.
InitUsage ==
  /\ registryFile \in {MissingFile} \cup {FileOf("scanner", r) : r \in UsageRegistries}
  /\ inflight = [c \in Continuations |-> 0]
  /\ last = Idle
  /\ acked = NoAcks
  /\ usage \in {NothingComputed(ss) : ss \in SessionSets}
  /\ git = GitIdle
  /\ hook = HookIdle
  /\ triage = TriageIdle
  /\ ui = UiIdle

NextUsage ==
  \/ \E cwd \in CwdInputs, rorder \in Orders(DOMAIN ProjectsRead(registryFile)) :
       AttributeRun(cwd, rorder)
  \/ \E days \in DaysArgs, filter \in FilterArgs,
        rorder \in Orders(DOMAIN ProjectsRead(registryFile)), sorder \in Orders(usage.sessions) :
       UsageRun(days, filter, rorder, sorder)
  \/ \E p \in UsageToggleInputs : ToggleBetweenRuns(p)

SpecUsage == InitUsage /\ [][NextUsage]_vars

\* Git activity over one repository's log.
InitGit ==
  /\ registryFile = MissingFile
  /\ inflight = [c \in Continuations |-> 0]
  /\ last = Idle
  /\ acked = NoAcks
  /\ usage = UsageIdle
  /\ git \in {GitRepo(log) : log \in UNION {GitLog(S) : S \in SUBSET CommitsInRepo}}
  /\ hook = HookIdle
  /\ triage = TriageIdle
  /\ ui = UiIdle

NextGit == GitActivityRun

SpecGit == InitGit /\ [][NextGit]_vars

\* The cache and its callers: set, get and clear in any order, while time passes.
InitCache ==
  /\ registryFile = MissingFile
  /\ inflight = [c \in Continuations |-> 0]
  /\ last = Idle
  /\ acked = NoAcks
  /\ usage = UsageIdle
  /\ git = GitIdle
  /\ hook = HookIdle
  /\ triage = TriageIdle
  /\ ui = UiIdle

NextCache ==
  \/ \E k \in SessionKeys, payload \in CachePayloads : CacheSet(k, payload)
  \/ \E k \in SessionKeys : CacheGet(k)
  \/ \E k \in SessionKeys : CacheClear(k)
  \/ CacheClearAll
  \/ \E ms \in ClockSteps : ClockAdvances(ms)

SpecCache == InitCache /\ [][NextCache]_vars

\* One run of the triage script, for every inbox, option and set of labels.
InitTriage ==
  /\ registryFile = MissingFile
  /\ inflight = [c \in Continuations |-> 0]
  /\ last = Idle
  /\ acked = NoAcks
  /\ usage = UsageIdle
  /\ git = GitIdle
  /\ hook = HookIdle
  /\ triage \in {TriageRun(opts, messages, labels) :
                   opts \in TriageOptions, messages \in SUBSET Mailbox, labels \in {{}, AllLabels}}
  /\ ui = UiIdle

NextTriage ==
  \/ CreateAllLabels
  \/ ApplyCategory

SpecTriage == InitTriage /\ [][NextTriage]_vars

\* The control UI: calls of loadProjects on one state object, their requests
\* answered in any order, the connection coming and going.
InitUi ==
  /\ registryFile = MissingFile
  /\ inflight = [c \in Continuations |-> 0]
  /\ last = Idle
  /\ acked = NoAcks
  /\ usage = UsageIdle
  /\ git = GitIdle
  /\ hook = HookIdle
  /\ triage = TriageIdle
  /\ ui = [UiIdle EXCEPT !.state = ProjectsState(TRUE, TRUE)]

NextUi ==
  \/ LoadProjects
  \/ \E b \in 1..MaxBatches, m \in BatchMethods :
       \E answer \in Answers("loadProjects", b, ui.gateway) : RequestSettles(b, m, answer)
  \/ \E client \in BOOLEAN, connected \in BOOLEAN : ConnectionChanges(client, connected)

SpecUi == InitUi /\ [][NextUi]_vars

\* The control UI with scans: calls of loadProjects and scanProjects on one
\* connected state object.
NextUiScan ==
  \/ LoadProjects
  \/ \E b \in 1..MaxBatches, m \in BatchMethods :
       \E answer \in Answers("loadProjects", b, ui.gateway) : RequestSettles(b, m, answer)
  \/ ScanProjects
  \/ \E i \in 1..MaxScans :
       \E answer \in Answers("scanProjects", i, ui.gateway) : ScanSettles(i, answer)

SpecUiScan == InitUi /\ [][NextUiScan]_vars

\* The control UI with toggles: calls of loadProjects and toggleProject on
\* one state object whose connection comes and goes.
NextUiToggle ==
  \/ LoadProjects
  \/ \E b \in 1..MaxBatches, m \in BatchMethods :
       \E answer \in Answers("loadProjects", b, ui.gateway) : RequestSettles(b, m, answer)
  \/ \E enabled \in BOOLEAN : ToggleProject(enabled)
  \/ \E i \in 1..MaxToggles, ok \in BOOLEAN : ToggleSettles(i, ok)
  \/ \E connected \in BOOLEAN : ConnectionChanges(connected, connected)

SpecUiToggle == InitUi /\ [][NextUiToggle]_vars

\* ------------------------------------------- documented boundary validation

\* path.resolve of an absolute path: "." and ".." segments are folded away
RECURSIVE Resolve(_)
Resolve(p) ==
  IF p = <<>> THEN <<>>
  ELSE LET before == Resolve(SubSeq(p, 1, Len(p) - 1))
           seg == p[Len(p)]
       IN IF seg = "." THEN before
          ELSE IF seg = ".." THEN (IF before = <<>> THEN <<>> ELSE SubSeq(before, 1, Len(before) - 1))
          ELSE Append(before, seg)

\* sanitizePath(p) is not null: resolved.startsWith(HOME + "/") || resolved === HOME
SanitizePathAccepts(p) ==
  LET resolved == Resolve(p) IN
  Len(HOME) <= Len(resolved) /\ SubSeq(resolved, 1, Len(HOME)) = HOME

\* sanitizeProjectName(name) is not null: /[/\\]|\.\./ does not match
SanitizeProjectNameAccepts(name) ==
  /\ \A i \in DOMAIN name : name[i] \notin {"/", "\\"}
  /\ \A i \in 1..(Len(name) - 1) : ~(name[i] = "." /\ name[i + 1] = ".")

\* One hook invocation after the other, the intelligence service answering as it likes.
InitHooks ==
  /\ registryFile = MissingFile
  /\ inflight = [c \in Continuations |-> 0]
  /\ last = Idle
  /\ acked = NoAcks
  /\ usage = UsageIdle
  /\ git = GitIdle
  /\ hook \in {[HookIdle EXCEPT !.maxChars = MAX_CONTEXT_CHARS(setting)] : setting \in MaxTokensSettings}
  /\ triage = TriageIdle
  /\ ui = UiIdle

NextHooks ==
  \/ \E event \in HookEvents, url \in UrlSettings : ContextInvoke(event, url)
  \/ \E outcome \in FetchOutcomes : ContextFetchSettles(outcome)
  \/ \E body \in Bodies : ContextJsonSettles(body)
  \/ ContextTimerFires
  \/ \E event \in HookEvents, url \in UrlSettings : IngestInvoke(event, url)
  \/ \E outcome \in FetchOutcomes : IngestFetchSettles(outcome)
  \/ IngestTimerFires

SpecHooks == InitHooks /\ [][NextHooks]_vars

\* The event loop runs a timer callback once its time has come.
SpecHooksFair ==
  InitHooks /\ [][NextHooks]_vars /\ WF_vars(ContextTimerFires) /\ WF_vars(IngestTimerFires)

\* ----------------------------------------------------------------- claims

Succeeded(o) == Len(o.responses) = 1 /\ o.responses[1].ok

FailedWith(o, code) == Len(o.responses) = 1 /\ ~o.responses[1].ok /\ o.responses[1].code = code

Threw(o) == \E i \in DOMAIN o.fs : o.fs[i].threw

WellFormedToggle(params) ==
  params.project.t = "string" /\ params.project.s # <<>> /\ params.enabled.t = "boolean"

ScriptMethods == {"projects.usage", "projects.git", "projects.scan"}

\* The step is a projects.toggle (a projects.list) handler run.
ToggleStep == last'.method = "projects.toggle" /\ inflight' = inflight
ListStep == last'.method = "projects.list" /\ inflight' = inflight

\* new is old with at most projects[p].enabled changed
SameButEnabled(old, new, p) ==
  /\ new.version = old.version /\ new.scannedAt = old.scannedAt /\ new.scanRoots = old.scanRoots
  /\ DOMAIN new.projects = DOMAIN old.projects
  /\ \A n \in DOMAIN old.projects :
       IF n = p THEN [new.projects[n] EXCEPT !.enabled = old.projects[n].enabled] = old.projects[n]
       ELSE new.projects[n] = old.projects[n]

\* C1: after projects.toggle(p, e) answers success the registry file holds
\* projects[p].enabled = e with every other field and project as before, and
\* a projects.list run after it returns enabled = e for p.
C1_ToggleSuccessIsPersisted ==
  [][ /\ (ToggleStep /\ Succeeded(last')) =>
           /\ registryFile.exists /\ registryFile.json
           /\ registryFile'.exists /\ registryFile'.json
           /\ last'.params.project.s \in DOMAIN registryFile'.value.projects
           /\ registryFile'.value.projects[last'.params.project.s].enabled = last'.params.enabled.b
           /\ SameButEnabled(registryFile.value, registryFile'.value, last'.params.project.s)
      /\ (last.method = "projects.toggle" /\ Succeeded(last) /\ ListStep /\ Succeeded(last')) =>
           /\ last.params.project.s \in DOMAIN last'.responses[1].payload.registry.projects
           /\ last'.responses[1].payload.registry.projects[last.params.project.s].enabled
                = last.params.enabled.b
    ]_vars

\* C2: a well-formed projects.toggle for a name that is not in the registry
\* (the file missing counts as an empty registry) fails with code NotFound.
C2_AbsentNameIsNotFound ==
  [][ ( /\ ToggleStep
        /\ WellFormedToggle(last'.params)
        /\ ~Threw(last')
        /\ \/ ~registryFile.exists
           \/ /\ registryFile.json
              /\ last'.params.project.s \notin DOMAIN registryFile.value.projects )
      => FailedWith(last', "NOT_FOUND")
    ]_vars

\* C3: a projects.toggle that answers with a failure leaves the registry
\* file as it was.
C3_FailedToggleLeavesFile ==
  (last.method = "projects.toggle" /\ ~Succeeded(last)) => ~last.changed

\* C4: a well-formed projects.toggle whose read, parse or write of the
\* registry file throws answers Unavailable, once, and no exception leaves
\* the handler.
C4_ToggleIoErrorIsUnavailable ==
  (last.method = "projects.toggle" /\ WellFormedToggle(last.params) /\ Threw(last))
    => (FailedWith(last, UNAVAILABLE) /\ ~last.escaped)

C4_Witness ==
  /\ last.method = "projects.toggle" /\ WellFormedToggle(last.params)
  /\ \E i \in DOMAIN last.fs : last.fs[i].call = "writeFileSync" /\ last.fs[i].threw
  /\ FailedWith(last, UNAVAILABLE)

\* C5: every handler run answers exactly once (a handler at its await has
\* not answered yet), with success and a payload or with a failure coded
\* InvalidRequest or Unavailable, Unavailable being the answer exactly when
\* an fs call, the parse or the script failed; no exception leaves a handler.
C5_RespondsExactlyOnce ==
  last.method # "none" =>
    /\ ~last.escaped
    /\ IF last.pending THEN last.responses = <<>>
       ELSE /\ Len(last.responses) = 1
            /\ \/ last.responses[1].ok /\ last.responses[1].payload.tag # "undefined"
               \/ /\ ~last.responses[1].ok
                  /\ last.responses[1].code \in {INVALID_REQUEST, UNAVAILABLE}
                  /\ last.responses[1].message # "none"
            /\ FailedWith(last, UNAVAILABLE)
                 <=> (Threw(last) \/ last.child \in {"noscript", "notjson", "exit", "flood", "hang"})

C5_Witness ==
  /\ last.method = "projects.scan" /\ ~last.pending
  /\ Succeeded(last) /\ last.responses[1].payload.tag = "registry"

\* C6: projects.scan starts the scanner only with roots that resolve inside
\* HOME; a request with no valid root fails with InvalidRequest and starts
\* nothing.
C6_ScanRootsStayInHome ==
  last.method = "projects.scan" =>
    /\ \A i \in DOMAIN last.spawns : \A j \in DOMAIN last.spawns[i].args :
         last.spawns[i].args[j].opt = "--root" => SanitizePathAccepts(last.spawns[i].args[j].val)
    /\ (last.params.roots.t = "array"
        /\ \A k \in DOMAIN last.params.roots.a : ~SanitizePathAccepts(last.params.roots.a[k]))
         => (FailedWith(last, INVALID_REQUEST) /\ last.spawns = <<>> /\ last.fs = <<>>)

\* C7: projects.usage, projects.git and projects.toggle answer
\* InvalidRequest to a project name with a path separator or a ".."
\* sequence, before any script is started or the registry is touched.
C7_BadProjectNameRejected ==
  ( /\ last.method \in {"projects.usage", "projects.git", "projects.toggle"}
    /\ last.params.project.t = "string"
    /\ ~SanitizeProjectNameAccepts(last.params.project.s) )
  => (FailedWith(last, INVALID_REQUEST) /\ last.spawns = <<>> /\ last.fs = <<>>)

\* C8: projects.list answers a missing registry file with success and an
\* empty projects map, answers a file that is not JSON with Unavailable, and
\* leaves the file as it is.
C8_ListMissingAndMalformed ==
  [][ ListStep =>
        /\ registryFile' = registryFile
        /\ ~registryFile.exists =>
             (Succeeded(last') /\ DOMAIN last'.responses[1].payload.registry.projects = {})
        /\ (registryFile.exists /\ ~registryFile.json) => FailedWith(last', UNAVAILABLE)
    ]_vars

C8_Witness ==
  /\ last.method = "projects.list" /\ FailedWith(last, UNAVAILABLE)
  /\ \E i \in DOMAIN last.fs : last.fs[i].call = "JSON.parse" /\ last.fs[i].threw
  /\ registryFile = CorruptFile

\* C9: a script-backed handler whose child runs into the timeout, overruns
\* maxBuffer or prints something that is not JSON answers Unavailable; while
\* a handler awaits its child it can complete whatever the child does; a
\* request starts at most one child.
C9_ScriptFailureIsUnavailable ==
  /\ (last.method \in ScriptMethods /\ last.child \in {"hang", "flood", "notjson"})
       => (FailedWith(last, UNAVAILABLE) /\ last.spawns = <<>>)
  /\ last.method \in ScriptMethods => Len(last.spawns) <= 1
  /\ \A child \in ChildBehaviours :
       /\ inflight[Continuation("projects.usage", "running")] > 0 => ENABLED UsageFinish(child)
       /\ inflight[Continuation("projects.git", "running")] > 0 => ENABLED GitFinish(child)
       /\ \A stage \in {"running", "written"} :
            inflight[Continuation("projects.scan", stage)] > 0 => ENABLED ScanFinish(stage, child, "ok")

C9_Witness ==
  last.method = "projects.scan" /\ last.child = "hang" /\ FailedWith(last, UNAVAILABLE)

\* C10: projects.usage and projects.git answer InvalidRequest to a days
\* parameter that is given but is not a number, is NaN or is negative, and
\* start no script for it.
C10_BadDaysRejected ==
  ( /\ last.method \in {"projects.usage", "projects.git"}
    /\ last.params.days.t # "undefined"
    /\ (last.params.days.t # "number" \/ last.params.days.nan \/ last.params.days.n < 0) )
  => (FailedWith(last, INVALID_REQUEST) /\ last.spawns = <<>>)

\* C11: two projects.toggle requests for different projects of the registry
\* that overlap are run one after the other (the handler has no await between
\* its read and its write), and when both have answered success the registry
\* holds both requested enabled values: no update is lost.
C11_OverlappingTogglesBothKept ==
  \A a \in acked :
    /\ registryFile.exists /\ registryFile.json
    /\ a.project \in DOMAIN registryFile.value.projects
    /\ registryFile.value.projects[a.project].enabled = a.enabled

C11_Witness ==
  /\ last.method = "projects.toggle" /\ Succeeded(last)
  /\ \E a, b \in acked : a.project # b.project /\ a.enabled # b.enabled
  /\ registryFile.fmt = "indent2"

\* C11 as stated: once a toggle of one project has answered success, a toggle
\* of another project of the registry can answer success and leave a registry
\* that does not hold the enabled value of the first.
C11_LostUpdateCanHappen ==
  (\E a \in acked : \E q \in DOMAIN registryFile.value.projects : q # a.project)
    => ENABLED ( /\ \E p \in ToggleInputs, rd \in ReadOutcomes, wr \in WriteOutcomes :
                      Toggle(p, rd, wr) /\ acked' = Acknowledged(acked, registryFile, last')
                 /\ Succeeded(last')
                 /\ \E a \in acked :
                      /\ last'.params.project.s # a.project
                      /\ last'.params.project.s \in DOMAIN registryFile.value.projects
                      /\ \/ ~registryFile'.json
                         \/ a.project \notin DOMAIN registryFile'.value.projects
                         \/ registryFile'.value.projects[a.project].enabled # a.enabled )

\* ---- session attribution and usage: what the claims compare against

\* path is cwd itself or a directory above it
Matches(cwd, path) ==
  cwd = path \/ \E k \in 1..Len(cwd) : SubSeq(cwd, 1, k) = Append(path, "/")

EnabledMatches(cwd, projects) ==
  {n \in DOMAIN projects : projects[n].enabled /\ Matches(cwd, projects[n].path)}

DisabledMatches(cwd, projects) ==
  {n \in DOMAIN projects : ~projects[n].enabled /\ Matches(cwd, projects[n].path)}

\* The enabled matching projects that no enabled matching project has a longer path than.
LongestMatches(cwd, projects) ==
  {n \in EnabledMatches(cwd, projects) :
     \A m \in EnabledMatches(cwd, projects) : Len(projects[m].path) <= Len(projects[n].path)}

\* attribute has just been applied to usage.cwd under the registry on disk
AttributeDone == usage.fresh /\ usage.op = "attribute"

\* project_usage.py has just run under the registry and the sessions on disk
UsageDone == usage.fresh /\ usage.op = "usage" /\ usage.out.ok

RECURSIVE SumOver(_, _, _)
SumOver(S, entries, field) ==
  IF S = {} THEN 0
  ELSE LET n == CHOOSE x \in S : TRUE IN entries[n][field] + SumOver(S \ {n}, entries, field)

\* The sessions of a run's output: an event in the window, and the filter passed.
Counted(sessions, projects, days, filter) ==
  {x \in sessions :
     /\ \E i \in DOMAIN x.events : InWindow(x.events[i], days)
     /\ filter.given =>
          IF LongestMatches(x.cwd, projects) = {} THEN filter.name = Unmatched
          ELSE filter.name \in LongestMatches(x.cwd, projects)}

RECURSIVE TokensOf(_, _)
TokensOf(S, days) ==
  IF S = {} THEN 0
  ELSE LET x == CHOOSE y \in S : TRUE
           ev == {i \in DOMAIN x.events : InWindow(x.events[i], days)}
       IN SumOver(ev, x.events, "input") + SumOver(ev, x.events, "output") + TokensOf(S \ {x}, days)

\* C12: attribute returns a project only when cwd is the project's path or
\* continues it after a path separator (a path that is a mere string prefix
\* of cwd, /a/b for /a/bc, is never returned); an empty cwd and a cwd no
\* enabled project matches give _unmatched.
C12_MatchNeedsSeparatorBoundary ==
  AttributeDone =>
    LET projects == registryFile.value.projects IN
    /\ usage.project # Unmatched =>
         /\ usage.project \in DOMAIN projects
         /\ Matches(usage.cwd, projects[usage.project].path)
    /\ (usage.cwd = <<>> \/ EnabledMatches(usage.cwd, projects) = {}) => usage.project = Unmatched

C12_Witness ==
  /\ AttributeDone /\ usage.cwd = PathABC
  /\ NameB \in DOMAIN registryFile.value.projects /\ registryFile.value.projects[NameB].enabled
  /\ NameBc \notin DOMAIN registryFile.value.projects
  /\ usage.project # NameB

\* C13: with several enabled projects matching, attribute returns one with
\* the longest path, and a repeated call on the same cwd and registry returns
\* the same name whatever the order the registry is enumerated in.
C13_LongestMatchDeterministic ==
  [][ (usage'.fresh /\ usage'.op = "attribute") =>
        /\ EnabledMatches(usage'.cwd, registryFile'.value.projects) # {} =>
             usage'.project \in LongestMatches(usage'.cwd, registryFile'.value.projects)
        /\ (AttributeDone /\ usage'.cwd = usage.cwd /\ registryFile' = registryFile) =>
             usage'.project = usage.project
    ]_vars

C13_Witness ==
  /\ AttributeDone /\ usage.cwd = CwdABSlashC
  /\ Cardinality(EnabledMatches(usage.cwd, registryFile.value.projects)) = 2
  /\ usage.project = NameB

C15_TotalsAreSumOfProjects ==
  UsageDone =>
    LET out == usage.out
        names == DOMAIN out.projects
        counted == Counted(usage.sessions, ProjectsRead(registryFile), usage.days, usage.filter)
    IN /\ out.totals.totalTokens = SumOver(names, out.projects, "totalTokens")
       /\ out.totals.estimatedCostUSD = SumOver(names, out.projects, "estimatedCostUSD")
       /\ out.totals.sessions = SumOver(names, out.projects, "sessions")
       /\ \A n \in names :
            out.projects[n].totalTokens = out.projects[n].inputTokens + out.projects[n].outputTokens
       /\ registryFile.exists =>
            /\ out.totals.sessions = Cardinality(counted)
            /\ out.totals.totalTokens = TokensOf(counted, usage.days)

C15_Witness ==
  /\ UsageDone /\ usage.days = Days(7) /\ usage.filter = Filter(NameB)
  /\ SessionUi \in usage.sessions /\ SessionBackup \in usage.sessions
  /\ NameBc \in EnabledMatches(PathABC, ProjectsRead(registryFile))
  /\ DOMAIN usage.out.projects = {NameB}
  /\ usage.out.totals.totalTokens = 180 /\ usage.out.totals.estimatedCostUSD = 12

\* C16: a usage run that follows a successful projects.toggle of a project
\* of the registry uses the new flag: nothing is reported under a project
\* just disabled, and the sessions a project just enabled is the longest
\* match of are reported under it; a second run with the same window and
\* filter and no change between gives the same output.
C16_UsageSeesToggle ==
  [][ (usage'.fresh /\ usage'.op = "usage") =>
        /\ ( /\ last'.method = "projects.toggle" /\ Succeeded(last')
             /\ last'.params.project.s \in DOMAIN ProjectsRead(registryFile') ) =>
             LET p == last'.params.project.s
                 mine == {x \in Counted(usage'.sessions, ProjectsRead(registryFile'),
                                        usage'.days, usage'.filter) :
                            p \in LongestMatches(x.cwd, ProjectsRead(registryFile'))}
             IN /\ usage'.out.ok
                /\ ~last'.params.enabled.b => p \notin DOMAIN usage'.out.projects
                /\ (last'.params.enabled.b /\ mine # {}) =>
                     /\ p \in DOMAIN usage'.out.projects
                     /\ usage'.out.projects[p].sessions = Cardinality(mine)
        /\ ( /\ usage.fresh /\ usage.op = "usage"
             /\ usage'.days = usage.days /\ usage'.filter = usage.filter
             /\ registryFile' = registryFile ) => usage'.out = usage.out
    ]_vars

C16_Witness ==
  /\ UsageDone /\ usage.filter = NoFilter
  /\ last.method = "projects.toggle" /\ Succeeded(last)
  /\ last.params.project.s = NameB /\ ~last.params.enabled.b
  /\ SessionUi \in usage.sessions
  /\ NameB \notin DOMAIN usage.out.projects
  /\ NameA \in DOMAIN usage.out.projects

\* The commits of all clusters, in cluster order.
RECURSIVE Flatten(_)
Flatten(clusters) == IF clusters = <<>> THEN <<>> ELSE clusters[1] \o Flatten(Tail(clusters))

\* C17: the clusters hold every commit once, in time order; two consecutive
\* commits share a cluster exactly when they are at most 30 minutes apart; a
\* cluster counts its last-minus-first minutes and no less than the floor;
\* the estimate is the sum over the clusters; commits at 09:00, 09:15, 09:50
\* and 14:00 make three clusters.
C17_CommitClustering ==
  git.done =>
    LET clusters == git.entry.clusters
        all == Flatten(clusters)
    IN /\ Len(all) = Len(git.log)
       /\ {all[i] : i \in DOMAIN all} = {git.log[i] : i \in DOMAIN git.log}
       /\ \A i \in 1..(Len(all) - 1) : all[i].ts <= all[i + 1].ts
       /\ \A k \in DOMAIN clusters :
            /\ clusters[k] # <<>>
            /\ \A i \in 1..(Len(clusters[k]) - 1) :
                 clusters[k][i + 1].ts - clusters[k][i].ts <= GapThresholdMinutes
            /\ k > 1 => clusters[k][1].ts - clusters[k - 1][Len(clusters[k - 1])].ts > GapThresholdMinutes
       /\ git.entry.estimatedMinutes =
            SumOver(DOMAIN clusters,
                    [k \in DOMAIN clusters |->
                       LET span == clusters[k][Len(clusters[k])].ts - clusters[k][1].ts IN
                       [minutes |-> IF span > MinSessionMinutes THEN span ELSE MinSessionMinutes]],
                    "minutes")
       /\ {git.log[i].ts : i \in DOMAIN git.log} = {540, 555, 590, 840} /\ Len(git.log) = 4
            => Len(clusters) = 3

C17_Witness ==
  /\ git.done /\ Len(git.log) = 5
  /\ {git.log[i].ts : i \in DOMAIN git.log} = {540, 555, 585, 621, 840}
  /\ Len(git.entry.clusters) = 3
  /\ git.entry.estimatedMinutes = 45 + 15 + 15

\* The handler waits for the intelligence service.
HookWaiting == hook.pc \in {"fetching", "reading"}

HookDone(handler) == hook.handler = handler /\ hook.pc = "done"

\* Every attempt of the invocation ended with its timer aborting the request.
OnlyTimeouts == hook.attempts # <<>> /\ \A i \in DOMAIN hook.attempts : hook.attempts[i] = "timeout"

\* C18: for one message:received event brain-context makes at most two POSTs,
\* all to /context/inject; a second one is made only after the first attempt
\* timed out (AbortError); when the first attempt ended with a network error or
\* a non-OK response, the invocation made exactly one request.
C18_RetryOnlyAfterTimeout ==
  hook.handler = "brain-context" =>
    /\ Len(hook.posts) <= 2
    /\ \A i \in DOMAIN hook.posts : hook.posts[i].endpoint = "/context/inject"
    /\ hook.posts # <<>> => IsMessageReceivedEvent(hook.event)
    /\ Len(hook.posts) = 2 => hook.attempts # <<>> /\ hook.attempts[1] = "timeout"
    /\ hook.attempts # <<>> /\ hook.attempts[1] \in {"error", "non-ok"} =>
         hook.pc = "done" /\ Len(hook.posts) = 1

C18_Witness ==
  /\ HookDone("brain-context")
  /\ Len(hook.posts) = 2
  /\ hook.attempts = <<"timeout", "memories">>

\* C19: brain-context and brain-ingest never reject: whatever the event and
\* whatever the HTTP call did (network error, timeout on every attempt, non-OK
\* status, unparsable body), a completed invocation has resolved (to undefined),
\* and no invocation is ever rejected.
C19_HandlersNeverReject ==
  /\ hook.settled # "rejected"
  /\ hook.pc = "done" => hook.settled = "resolved"
  /\ hook.pc # "done" => hook.settled = "pending"

C19_Witness ==
  /\ HookDone("brain-context")
  /\ hook.attempts = <<"unparsable">>
  /\ hook.settled = "resolved"
  /\ hook.logs = <<"BRAIN_CONTEXT_FAILED">>

\* C20: no invocation waits for ever: one that waits for the service completes
\* (the timer of the attempt is pending for as long as it waits); when the
\* service never answered, brain-ingest completed after its single request was
\* aborted and brain-context after two aborted attempts; every attempt started
\* one timer, and no timer is pending, and every timer is cleared, once the
\* handler has completed.
C20_HooksNeverBlock ==
  /\ [](Len(hook.timers) = Len(hook.posts))
  /\ [](HookWaiting => hook.timers # <<>> /\ hook.timers[Len(hook.timers)].pending)
  /\ [](hook.pc = "done" =>
          \A i \in DOMAIN hook.timers : ~hook.timers[i].pending /\ hook.timers[i].cleared)
  /\ [](hook.pc = "done" /\ OnlyTimeouts =>
          Len(hook.posts) = (IF hook.handler = "brain-ingest" THEN 1 ELSE 2))
  /\ (HookWaiting ~> hook.pc = "done")

C20_Witness ==
  /\ HookDone("brain-context")
  /\ hook.attempts = <<"timeout", "timeout">>
  /\ \A i \in DOMAIN hook.timers : hook.timers[i].fired /\ hook.timers[i].cleared
  /\ Len(hook.timers) = 2

\* A handler is called: the step that starts an invocation.
HookInvoked(handler) == hook.pc \in {"idle", "done"} /\ hook'.handler = handler

\* C21: an invocation of brain-context for an event that is not message:received
\* (a command event, a message:sent event), or while INTELLIGENCE_URL is unset
\* or blank, returns at once: no request, no timer, and the cache as it was.
C21_SkippedEventsTouchNothing ==
  [][HookInvoked("brain-context")
       /\ (~IsMessageReceivedEvent(hook'.event) \/ hook'.url \in {"unset", "blank"})
     => /\ hook'.posts = <<>>
        /\ hook'.timers = <<>>
        /\ hook'.cache = hook.cache
        /\ hook'.pc = "done"]_vars

C21_Witness ==
  /\ HookDone("brain-context")
  /\ IsMessageReceivedEvent(hook.event) /\ hook.url = "blank"
  /\ hook.posts = <<>>
  /\ hook.cache[hook.event.sessionKey] # NoEntry

\* The step that completes an invocation that waited for the service.
HookCompletes(handler) == hook.handler = handler /\ HookWaiting /\ hook'.pc = "done"

\* C22: when brain-context completes for a message:received event of session
\* S, it has called setBrainContext (once, for S) exactly when an attempt, the
\* first or the retry, got an OK response whose trimmed context_block is not
\* empty or whose memories_used is not 0; the entry of S then holds the
\* memoriesUsed, identity and entities of that response and a context block
\* taken from the start of its trimmed context_block. After an error, a timeout
\* on both attempts, a non-OK status or an empty response nothing is written.
\* The entries of the other sessions stay as they were.
C22_CacheWrittenExactlyForContext ==
  [][HookCompletes("brain-context") =>
       LET S == hook'.event.sessionKey
           got == hook'.response
           ending == hook'.attempts[Len(hook'.attempts)]
           kept == /\ ending \notin {"error", "timeout", "non-ok", "unparsable"}
                   /\ got # None
                   /\ \/ got[1].context_block # None /\ Trim(got[1].context_block[1]).core > 0
                      \/ got[1].memories_used # None /\ got[1].memories_used[1] # 0
       IN /\ hook'.writes = (IF kept THEN 1 ELSE 0)
          /\ \A k \in SessionKeys \ {S} : hook'.cache[k] = hook.cache[k]
          /\ ~kept => hook'.cache = hook.cache
          /\ kept =>
               /\ hook'.cache[S] # NoEntry
               /\ LET payload == hook'.cache[S][1].payload IN
                  /\ payload.memoriesUsed = (IF got[1].memories_used = None THEN 0 ELSE got[1].memories_used[1])
                  /\ payload.identity = got[1].identity
                  /\ payload.entities = got[1].entities
                  /\ IF got[1].context_block = None THEN payload.contextBlock = EmptyString
                     ELSE /\ payload.contextBlock.text = got[1].context_block[1].text
                          /\ payload.contextBlock.lead = 0
                          /\ payload.contextBlock.core <= got[1].context_block[1].core]_vars

C22_Witness ==
  /\ HookDone("brain-context")
  /\ hook.attempts = <<"timeout", "memories">>
  /\ hook.writes = 1
  /\ hook.response = Some(InjectResponse(None, Some(3), None, Some(<<"Brian">>)))
  /\ hook.cache[hook.event.sessionKey] # NoEntry
  /\ hook.cache[hook.event.sessionKey][1].payload.memoriesUsed = 3

\* C23: the context block of every cache entry is at most MAX_CONTEXT_CHARS
\* characters long (BRAIN_CONTEXT_MAX_TOKENS x 4, 8000 by default), whatever
\* the length of the context_block of the response; and after a completed
\* retrieval whose trimmed block was within the budget the entry holds that block.
C23_StoredBlockWithinBudget ==
  /\ \A k \in SessionKeys :
       hook.cache[k] # NoEntry => Length(hook.cache[k][1].payload.contextBlock) <= hook.maxChars
  /\ HookDone("brain-context") /\ hook.writes = 1
       /\ Length(ContextBlockOf(hook.response[1])) <= hook.maxChars
     => hook.cache[hook.event.sessionKey][1].payload.contextBlock = ContextBlockOf(hook.response[1])

\* What getBrainContext(k) is to return by the claim: the payload last set for
\* k, when no clear came after it and at most 30000 ms have passed since.
LiveEntry(k) ==
  IF hook.lastSet[k] # None /\ hook.now - hook.lastSet[k][1].at <= 30000
  THEN Some(hook.lastSet[k][1].payload) ELSE None

\* C24: getBrainContext(S) returns the payload most recently set for S exactly
\* when at most 30000 ms have passed since that set and S was not cleared since;
\* otherwise it returns undefined, and the entry is gone after the call; a new
\* set replaces the payload and restarts the 30 s; set, get and clear of one
\* session key leave the entries of the other keys as they are.
C24_CacheTtl ==
  [][/\ hook'.cacheOp.op = "get" =>
          /\ hook'.got = LiveEntry(hook.cacheOp.key)'
          /\ hook'.got = None => hook'.cache[hook'.cacheOp.key] = NoEntry
     /\ hook'.cacheOp.op = "set" =>
          /\ hook'.cache[hook'.cacheOp.key] # NoEntry
          /\ hook'.cache[hook'.cacheOp.key][1].expiresAt = hook.now + 30000
          /\ LiveEntry(hook.cacheOp.key)' = Some(hook'.cache[hook'.cacheOp.key][1].payload)
     /\ hook'.cacheOp.op \in {"get", "set", "clear"} =>
          \A k \in SessionKeys \ {hook'.cacheOp.key} :
            /\ hook'.cache[k] = hook.cache[k]
            /\ GetBrainContext(hook'.cache, k, hook'.now).returns
                 = GetBrainContext(hook.cache, k, hook.now).returns]_vars

C24_Witness ==
  /\ hook.cacheOp.op = "get"
  /\ hook.got # None
  /\ hook.lastSet[hook.cacheOp.key] # None
  /\ hook.now - hook.lastSet[hook.cacheOp.key][1].at = 30000
  /\ \E k \in SessionKeys : hook.lastSet[k] # None /\ hook.cache[k] = NoEntry

\* C25: an invocation of brain-ingest issues exactly one POST, to /ingest, for
\* a message:received event (role user, user the sender) and for a message:sent
\* event with success true (role assistant, user the recipient), when
\* INTELLIGENCE_URL is set; it issues none for a failed send, an event that is
\* not a message, or a URL that is not set; and never a second one, whatever
\* became of the first.
C25_OneIngestPerMessage ==
  hook.handler = "brain-ingest" =>
    LET e == hook.event
        received == e.type = "message" /\ e.action = "received"
        delivered == e.type = "message" /\ e.action = "sent" /\ e.success
    IN /\ Len(hook.posts) = (IF hook.url = "set" /\ (received \/ delivered) THEN 1 ELSE 0)
       /\ \A i \in DOMAIN hook.posts :
            /\ hook.posts[i].endpoint = "/ingest"
            /\ received => hook.posts[i].role = "user" /\ hook.posts[i].user = "from"
            /\ delivered => hook.posts[i].role = "assistant" /\ hook.posts[i].user = "to"
       /\ hook.pc = "done" /\ hook.posts # <<>> => Len(hook.attempts) = 1

C25_Witness ==
  /\ HookDone("brain-ingest")
  /\ hook.event.action = "sent" /\ hook.event.success
  /\ hook.attempts = <<"timeout">>
  /\ hook.posts = <<Post("/ingest", "assistant", "to")>>

\* ---- triage: what the claims compare against

\* The labels of the messages the taxonomy keeps in the inbox.
KeptLabels == {"Triage/Security", "Triage/Finance", "Triage/Travel", "Triage/Action-Required"}

\* The priority order of label-taxonomy.md
PriorityOrder ==
  <<"Triage/Security", "Triage/Action-Required", "Triage/Finance", "Triage/Travel",
    "Triage/Receipts", "Triage/Shipping", "Triage/Calendar", "Triage/Automated",
    "Triage/Newsletters", "Triage/Notifications", "Triage/Social", "Triage/Promotions">>

\* C26: in a run with --archive, a message that the run has labelled
\* Triage/Security, Triage/Finance or Triage/Travel (or Action-Required) is
\* still in the inbox, whatever other queries it matches.
C26_KeptLabelsStayInInbox ==
  triage.opts.archive =>
    \A id \in DOMAIN triage.mail :
      triage.mail[id].labels \cap KeptLabels # {} => triage.mail[id].inInbox

\* C27: during a run a message receives at most one Triage label, that of the
\* first category in the priority order whose query it matches.
C27_FirstMatchingLabelOnly ==
  \A m \in triage.messages :
    LET labels == triage.mail[m.id].labels IN
    /\ Cardinality(labels) <= 1
    /\ \A l \in labels :
         \E i \in DOMAIN PriorityOrder :
           /\ PriorityOrder[i] = l
           /\ \A j \in 1..(i - 1) : ~QueryTerms(PriorityOrder[j], m)

\* C28: with --dry-run no step of the script creates a label or modifies a
\* message: the labels of the account, the labels of every message and the
\* inbox stay as they were and no changing command is issued, for every inbox
\* and every combination of the other options.
C28_DryRunChangesNothing ==
  [][triage.opts.dryRun =>
       /\ triage'.labels = triage.labels
       /\ triage'.mail = triage.mail
       /\ triage'.changes = {}]_vars

C28_Witness ==
  /\ triage.opts.dryRun /\ triage.opts.archive
  /\ triage.step = Len(Categories) + 1
  /\ triage.messages = Mailbox
  /\ triage.labels = {}
  /\ triage.changes = {}
  /\ \E label \in AllLabels : Search(triage, label) # {}

\* C29: a projects.toggle whose project is missing, not a string or empty, or
\* whose enabled is missing or not a boolean, answers InvalidRequest and makes
\* no call on the registry file: no existsSync, no read, no write.
C29_MalformedToggleIsInvalidRequest ==
  (/\ last.method = "projects.toggle"
   /\ \/ last.params.project.t # "string"
      \/ last.params.project.s = <<>>
      \/ last.params.enabled.t # "boolean")
    => /\ FailedWith(last, INVALID_REQUEST)
       /\ Len(last.responses) = 1
       /\ last.fs = <<>>
       /\ ~last.changed

C29_Witness ==
  /\ last.method = "projects.toggle"
  /\ last.params.project = JsString(NameUi)
  /\ last.params.enabled = JsString(<<"1">>)
  /\ registryFile.exists /\ registryFile.json
  /\ NameUi \in DOMAIN registryFile.value.projects
  /\ FailedWith(last, INVALID_REQUEST)
  /\ last.fs = <<>>

\* ---- control UI: what the claims compare against

\* The batches that have a request the gateway has not answered yet.
BatchesWithPendingRequests ==
  {b \in DOMAIN ui.batches : \E m \in BatchMethods : ui.batches[b].requests[m] = Pending}

\* The batches whose loadProjects call is still at its await.
BatchesAwaited == {b \in DOMAIN ui.batches : ~ui.batches[b].settled}

\* C30: at most one loadProjects call is at its await at any time, and a
\* loadProjects call made while projectsLoading is true, or while the client is
\* null or disconnected, issues no request and changes no field of the state.
\* (The requests of a batch that was rejected may still be unanswered when the
\* next batch is issued.)
C30_LoadIsSingleFlight ==
  /\ [](Cardinality(BatchesAwaited) <= 1)
  /\ [][ui'.lastCall = "returned early" /\ ui.lastCall # "returned early" =>
          /\ ui.state.projectsLoading \/ ~ui.state.client \/ ~ui.state.connected
          /\ ui'.state = ui.state
          /\ ui'.batches = ui.batches]_vars
  /\ [][ui.state.projectsLoading \/ ~ui.state.client \/ ~ui.state.connected =>
          Len(ui'.batches) = Len(ui.batches)]_vars

C30_Witness ==
  /\ ui.lastCall = "returned early"
  /\ ui.state.projectsLoading /\ ui.state.client /\ ui.state.connected
  /\ Len(ui.batches) = 2
  /\ ui.batches[1].settled /\ ui.batches[1].requests["projects.list"] = Rejected
  /\ BatchesAwaited = {2}

\* C30 as stated: the requests in flight at any time are those of one batch.
C30_OneBatchOfRequestsInFlight == Cardinality(BatchesWithPendingRequests) <= 1

\* C31: projectsLoading is true exactly while a loadProjects call is at the
\* await of its batch: the step that issues the requests sets it, and the step
\* in which the batch settles, with three results or with the first failure,
\* resets it, so no settled batch leaves a flag that blocks later calls.
C31_LoadingFlagFollowsBatch ==
  /\ [](ui.state.projectsLoading <=> BatchesAwaited # {})
  /\ [][Len(ui'.batches) > Len(ui.batches) =>
          ~ui.state.projectsLoading /\ ui'.state.projectsLoading]_vars
  /\ [][\A b \in DOMAIN ui.batches :
          ~ui.batches[b].settled /\ ui'.batches[b].settled => ~ui'.state.projectsLoading]_vars

C31_Witness ==
  /\ Len(ui.batches) = 2
  /\ ui.batches[1].settled /\ \E m \in BatchMethods : ui.batches[1].requests[m] = Rejected
  /\ ui.batches[2].settled /\ \A m \in BatchMethods : ui.batches[2].requests[m].status = "resolved"
  /\ ~ui.state.projectsLoading

\* The fields loadProjects assigns results to.
LoadedFields(state) == <<state.projectsRegistry, state.projectsUsage, state.projectsGit>>

\* C32: a batch in which a request is rejected changes none of
\* projectsRegistry, projectsUsage and projectsGit, not even for its requests
\* that resolved, and sets projectsError; an answer that does not complete the
\* batch changes no field; the results are assigned in the step in which the
\* third request resolves; and the step that issues a batch clears projectsError.
C32_LoadIsAllOrNothing ==
  [][/\ \A b \in DOMAIN ui.batches :
          /\ ~ui.batches[b].settled /\ ui'.batches[b].settled
               /\ (\E m \in BatchMethods : ui'.batches[b].requests[m] = Rejected)
             => /\ LoadedFields(ui'.state) = LoadedFields(ui.state)
                /\ ui'.state.projectsError # None
          /\ ui'.batches[b] # ui.batches[b] /\ (~ui'.batches[b].settled \/ ui.batches[b].settled)
             => ui'.state = ui.state
          /\ ~ui.batches[b].settled /\ ui'.batches[b].settled
               /\ (\A m \in BatchMethods : ui'.batches[b].requests[m].status = "resolved")
             => /\ ui'.state.projectsError = ui.state.projectsError
                /\ \A m \in BatchMethods :
                     ui'.batches[b].requests[m].value # None =>
                       ui'.batches[b].requests[m].value \in
                         {ui'.state.projectsRegistry, ui'.state.projectsUsage, ui'.state.projectsGit}
     /\ Len(ui'.batches) > Len(ui.batches) =>
          /\ ui'.state.projectsError = None
          /\ LoadedFields(ui'.state) = LoadedFields(ui.state)]_vars

C32_Witness ==
  /\ Len(ui.batches) = 2
  /\ ui.batches[1].settled
  /\ \A m \in BatchMethods : ui.batches[1].requests[m] = Resolved(Result("loadProjects", 1, FALSE))
  /\ ui.batches[2].settled
  /\ ui.batches[2].requests["projects.list"] = Resolved(Result("loadProjects", 2, FALSE))
  /\ ui.batches[2].requests["projects.git"] = Rejected
  /\ \A k \in 1..3 : LoadedFields(ui.state)[k] = Result("loadProjects", 1, FALSE)
  /\ ui.state.projectsError = Some(2)

\* The scanProjects calls that are running: their request or their reload is awaited
ScansRunning == {i \in DOMAIN ui.scans : ui.scans[i].pc # "done"}

\* C33: every scanProjects call that received a successful projects.scan
\* response and has completed issued a projects.usage and a projects.git
\* request after that response (its reload started a batch of requests), also
\* when a loadProjects call was in flight when the response arrived.
C33_ScanReloadsUsage ==
  \A i \in DOMAIN ui.scans :
    ui.scans[i].pc = "done" /\ ui.scans[i].ok => ui.scans[i].reloaded

\* C34: projectsScanning is true while a scanProjects call is running, for
\* any number of overlapping calls, and false once none is running.
C34_ScanningFlagFollowsScans ==
  ui.state.projectsScanning = (ScansRunning # {})

\* The toggleProject calls whose request is unanswered
TogglesPending == {i \in DOMAIN ui.toggles : ui.toggles[i].pc = "pending"}

\* The enabled flag of the project in the UI's copy of the registry, if it has one
LocalEnabled(state) ==
  IF state.projectsRegistry = None THEN None ELSE Some(state.projectsRegistry[1].enabled)

\* C35: once a toggleProject call has succeeded and no loadProjects,
\* scanProjects or toggleProject call is in flight, the enabled flag of the
\* UI's copy of the registry equals the flag persisted by the gateway.
C35_RegistryConverges ==
  /\ \E i \in DOMAIN ui.toggles : ui.toggles[i].ok
  /\ BatchesAwaited = {}
  /\ ScansRunning = {}
  /\ TogglesPending = {}
  /\ ui.state.projectsRegistry # None
  => LocalEnabled(ui.state) = Some(ui.gateway)

\* C36: a toggleProject call made while the client is null or disconnected
\* sends no request and changes nothing; sending the request changes no field
\* of the state; a request acknowledged with success sets the local flag to
\* the asked value and changes no other field; a failed request leaves the
\* local registry and the gateway's flag unchanged and sets projectsError; and
\* outside the completion of a loadProjects batch the local flag changes only
\* in the step that acknowledges a toggle with success.
C36_ToggleAppliesAfterAck ==
  [][ /\ ui'.lastCall = "toggle returned early"
         => ReturnsEarly(ui.state) /\ ui'.toggles = ui.toggles /\ ui'.state = ui.state
            /\ ui'.gateway = ui.gateway
      /\ ReturnsEarly(ui.state) => Len(ui'.toggles) = Len(ui.toggles)
      /\ Len(ui'.toggles) > Len(ui.toggles) => ui'.state = ui.state /\ ui'.gateway = ui.gateway
      /\ \A i \in DOMAIN ui.toggles :
           ui.toggles[i].pc = "pending" /\ ui'.toggles[i].pc = "done"
           => IF ui'.toggles[i].ok
              THEN /\ LocalEnabled(ui'.state) \in {None, Some(ui.toggles[i].enabled)}
                   /\ (LocalEnabled(ui'.state) = None) = (LocalEnabled(ui.state) = None)
                   /\ [ui'.state EXCEPT !.projectsRegistry = None]
                        = [ui.state EXCEPT !.projectsRegistry = None]
              ELSE /\ ui'.state.projectsRegistry = ui.state.projectsRegistry
                   /\ ui'.state.projectsError # None
                   /\ ui'.gateway = ui.gateway
      /\ LocalEnabled(ui'.state) # LocalEnabled(ui.state) /\ ui'.batches = ui.batches
         => \E i \in TogglesPending : ui'.toggles[i].pc = "done" /\ ui'.toggles[i].ok
    ]_vars

\* A toggle to enabled was acknowledged and the UI's copy, loaded while the
\* project was disabled, now says enabled.
C36_Witness ==
  /\ Len(ui.toggles) = 1
  /\ ui.toggles[1] = [enabled |-> TRUE, pc |-> "done", ok |-> TRUE]
  /\ ui.state.projectsRegistry = Result("loadProjects", 1, TRUE)
  /\ ui.state.projectsError = None

\* The registry file holds a registry in which name is a key of the projects map.
OwnProject(f, name) == f.exists /\ f.json /\ name \in DOMAIN f.value.projects

\* C37: projects.toggle answers success only when the given name is a key of
\* the projects map of the registry; for every other string, names of
\* built-in object properties included, it answers with a failure and does
\* not write the registry file.
C37_ToggleSucceedsForOwnKeysOnly ==
  [][ ToggleStep =>
        /\ Succeeded(last') => OwnProject(registryFile, last'.params.project.s)
        /\ (last'.params.project.t = "string" /\ ~OwnProject(registryFile, last'.params.project.s))
           => (~Succeeded(last') /\ ~Called(last'.fs, "writeFileSync"))
    ]_vars

\* C38: when the brain-context handler has completed for a message:received
\* event of session S, a payload that getBrainContext(S) returns was stored
\* by that invocation, also when its retrieval failed, timed out or returned
\* no memories.
C38_CacheServesNewestMessage ==
  ( /\ HookDone("brain-context")
    /\ IsMessageReceivedEvent(hook.event)
    /\ GetBrainContext(hook.cache, hook.event.sessionKey, hook.now).returns # None )
  => hook.writes = 1

====
